---- MODULE Spec2Model ----
(***************************************************************************)
(* Model of the AnythingLLM workspace cleanup dashboard                    *)
(* (src/cleanup_app.py): the sidebar widgets, the make_request dispatcher  *)
(* with its 401 fallback loop, and the button handlers of the script; of   *)
(* the GitHub organization import monitor (src/indexer/ui.py); and of the  *)
(* LanceDB inspection REPL (src/docker/explore_lancedb.py).  The three     *)
(* programs share nothing: each has its own variables and its own          *)
(* specification, and leaves the variables of the others alone.            *)
(*                                                                         *)
(* A Streamlit script is re-run from the top on every widget interaction;  *)
(* a button evaluates to True only in the run caused by its own press.     *)
(* One action of the model is one such run.  Widget values persist across  *)
(* runs; everything a run displays or sends belongs to that run only.      *)
(*                                                                         *)
(* Text is modelled as a sequence of symbols.  A symbol is one character   *)
(* (" ", "\n", "a", ...) or an unbreakable word ("Bearer", the             *)
(* confirmation phrase) that the code only ever compares as a whole.       *)
(***************************************************************************)
EXTENDS Integers, Sequences, FiniteSets, TLC

\* ------------------------------------------------------------------ bounds
\* longest identifier text drawn for the line-parsing specification
MaxLen == 4
\* number of logical make_request calls followed before the model stops
\* pressing dispatching buttons
MaxCalls == 2

\* ------------------------------------------------------------ text helpers
\* characters removed by Python's str.strip()
IsSpace(c) == c \in {" ", "\n"}

RECURSIVE LStrip(_)
LStrip(s) == IF s # <<>> /\ IsSpace(Head(s)) THEN LStrip(Tail(s)) ELSE s

RECURSIVE RStrip(_)
RStrip(s) ==
    IF s # <<>> /\ IsSpace(s[Len(s)]) THEN RStrip(SubSeq(s, 1, Len(s) - 1)) ELSE s

\* str.strip()
Strip(s) == LStrip(RStrip(s))

\* str.split("\n"): the pieces between newlines; "" splits into [""]
RECURSIVE SplitAcc(_, _, _)
SplitAcc(s, cur, acc) ==
    IF s = <<>> THEN Append(acc, cur)
    ELSE IF Head(s) = "\n" THEN SplitAcc(Tail(s), <<>>, Append(acc, cur))
    ELSE SplitAcc(Tail(s), Append(cur, Head(s)), acc)

SplitLines(s) == SplitAcc(s, <<>>, <<>>)

\* str.startswith(prefix)
StartsWith(s, prefix) ==
    Len(s) >= Len(prefix) /\ SubSeq(s, 1, Len(prefix)) = prefix

\* "Bearer" in s
ContainsBearer(s) == \E i \in 1..Len(s) : s[i] = "Bearer"

\* [w.strip() for w in s]
StripEach(s) == [i \in 1..Len(s) |-> Strip(s[i])]

NonBlank(w) == Strip(w) # <<>>

\* a variant of the list comprehension that drops repeated entries
RECURSIVE DropRepeats(_, _)
DropRepeats(s, acc) ==
    IF s = <<>> THEN acc
    ELSE IF \E i \in 1..Len(acc) : acc[i] = Head(s) THEN DropRepeats(Tail(s), acc)
    ELSE DropRepeats(Tail(s), Append(acc, Head(s)))

ParseLinesDedup(text) ==
    DropRepeats(StripEach(SelectSeq(SplitLines(Strip(text)), NonBlank)), <<>>)

\* [w.strip() for w in text.strip().split("\n") if w.strip()]
ParseLines(text) ==
    StripEach(SelectSeq(SplitLines(Strip(text)), NonBlank))


\* ------------------------------------------------------------------- state
VARIABLES
    auth_type,            \* sidebar radio "Authentication Type"
    jwt_token,            \* sidebar text area "JWT Token"
    api_key,              \* sidebar text input "API Key"
    username,             \* sidebar text input "Username"
    password,             \* sidebar text input "Password"
    workspace_input,      \* text area "Workspaces to Clean (one per line)"
    directory_input,      \* text area "Directories to Clean (one per line)"
    slug_patterns_input,  \* text area "Slug Patterns to Clean (one per line)"
    confirmation,         \* text input "Type 'CONFIRM_WORKSPACE_DELETION' to confirm"
    pressed,              \* the button whose press caused the latest run
    shown,                \* the handler's messages displayed by the latest run
    calls,                \* the make_request calls of the latest run
    direct,               \* requests sent by a handler outside make_request
    nCalls,               \* make_request calls since the session started
    github_org_filter,    \* text input "Organization filter (optional)"
    gh_recovery_dry_run,  \* checkbox "Dry run (test only, don't make changes)"
    df_data,              \* rows of the recovery result table of the latest run
    job_list,             \* the job names the service lists
    cleanup_logs          \* options of the log selectbox of the latest run

\* the import monitor (src/indexer/ui.py)
VARIABLES
    auth_method,          \* sidebar radio "Authentication Method"
    auth_token,           \* sidebar text input "Authentication Token"
    gh_org,               \* form input "GitHub Organization Name"
    gh_token,             \* form input "GitHub Access Token"
    import_jobs,          \* st.session_state.import_jobs (<<>> while absent)
    all_jobs,             \* st.session_state.all_jobs: <<>> while absent, else <<list>>
    selected_job_idx,     \* selectbox "Select job for details"
    log_job_idx,          \* selectbox "Select job to view logs"
    gh_token_resume,      \* text input "GitHub Access Token for Resume"
    direct_log_path,      \* text input "Log File Path"
    m_pressed,            \* the button whose press caused the latest run
    m_shown,              \* the handler's messages displayed by the latest run
    m_sent,               \* the HTTP requests of the latest run
    m_details             \* the request details the latest run displayed

\* the inspection REPL (src/docker/explore_lancedb.py)
VARIABLES
    r_pc,                 \* where the process is: a prompt it waits at, or "exited"
    r_argv,               \* a path was given on the command line
    r_exit,               \* exit code once exited, -1 before
    lancedb_uri,          \* the path being explored (<<>> while None)
    table_names,          \* db.table_names() of the current exploration
    table_info,           \* the names whose row count was read, in order
    r_enumerations,       \* calls of db.table_names() in the current exploration
    table_name,           \* the table being inspected (<<>> while none)
    r_out,                \* what the latest step printed last
    r_engine,             \* the latest query handed to the engine
    r_input               \* what the latest step read from standard input

recovery_widgets == <<github_org_filter, gh_recovery_dry_run>>

widgets ==
    <<auth_type, jwt_token, api_key, username, password, workspace_input,
      directory_input, slug_patterns_input, confirmation, github_org_filter,
      gh_recovery_dry_run>>

cleanupVars ==
    <<auth_type, jwt_token, api_key, username, password, workspace_input,
      directory_input, slug_patterns_input, confirmation, pressed, shown,
      calls, direct, nCalls, github_org_filter, gh_recovery_dry_run, df_data,
      job_list, cleanup_logs>>

monitorVars ==
    <<auth_method, auth_token, gh_org, gh_token, import_jobs, all_jobs,
      selected_job_idx, log_job_idx, gh_token_resume, direct_log_path,
      m_pressed, m_shown, m_sent, m_details>>

replVars ==
    <<r_pc, r_argv, r_exit, lancedb_uri, table_names, table_info, r_enumerations,
      table_name, r_out, r_engine, r_input>>

vars == <<cleanupVars, monitorVars, replVars>>

\* ----------------------------------------------------- values of the inputs
AuthTypes == {"JWT Token", "API Key", "Basic Auth", "No Auth"}

ConfirmPhrase == <<"CONFIRM_WORKSPACE_DELETION">>

\* what the user may type in the confirmation field
ConfirmationSamples ==
    { <<>>, ConfirmPhrase, <<"CONFIRM_WORKSPACE_DELETION", " ">>,
      <<"confirm_workspace_deletion">> }

JwtSamples == { <<>>, <<"t">>, <<"Bearer", " ", "t">> }
ApiKeySamples == { <<>>, <<"k">>, <<"Bearer", " ", "k">> }
NameSamples == { <<>>, <<"u">> }
SecretSamples == { <<>>, <<"p">> }

\* the prefilled identifier lists, shortened to two entries each
DefaultWorkspaces == <<"a", "\n", "b">>
DefaultDirectories == <<"d">>
DefaultSlugPatterns == <<"s">>

WorkspaceSamples == { DefaultWorkspaces, <<" ", "\n">>, <<"a", "\n", "\n", "a", " ">> }
DirectorySamples == { DefaultDirectories, <<>> }
SlugPatternSamples == { DefaultSlugPatterns, <<"\n">> }

\* every text over the alphabet of at most n symbols
RECURSIVE TextsUpTo(_)
TextsUpTo(n) ==
    IF n = 0 THEN { <<>> }
    ELSE LET shorter == TextsUpTo(n - 1)
         IN  shorter \cup { Append(t, c) : t \in shorter, c \in {"a", "b", " ", "\n"} }

\* ------------------------------------------------------------- the server
CleanupEndpoint == "/ext/github/cleanup-workspaces"
PingEndpoint == "/api/ping"
HealthEndpoint == "/health"
JobsEndpoint == "/ext/github/org-import/jobs"
LogEndpoint == "/ext/github/org-import/log"
RecoverEndpoint == "/ext/github/org-import/recover"

\* requests.get / requests.post either raises (DNS, refused, timeout) or
\* returns a response; the body is JSON (for the cleanup endpoint with or
\* without a logFile field) or plain text (empty for a 204; a 401 carries
\* the service's JSON error object).  A 200 of the jobs endpoint lists job
\* names, of the recovery endpoint a result summary with or without detail
\* rows; either may answer success = false
Raised == [raised |-> TRUE, status_code |-> 0, body |-> "none"]

JobsBodies == {"jobs:mixed", "jobs:other", "jobs:empty", "jobs:fail"}

RecoverBodies == {"rec:details", "rec:summary+logFile", "rec:fail"}

Bodies == {"json+logFile", "json", "text"} \cup JobsBodies \cup RecoverBodies

BodiesOf(endpoint, status) ==
    IF status = 200 /\ endpoint = CleanupEndpoint
    THEN {"json+logFile", "json", "text"}
    ELSE IF status = 200 /\ endpoint = JobsEndpoint
    THEN JobsBodies \cup {"text"}
    ELSE IF status = 200 /\ endpoint = RecoverEndpoint
    THEN RecoverBodies \cup {"text"}
    ELSE IF status = 204 THEN {"text"}
    ELSE IF status = 401 THEN {"json"}
    ELSE {"json", "text"}

ServerOutcomes(endpoint) ==
    { Raised } \cup
    { [raised |-> FALSE, status_code |-> st, body |-> b] :
        st \in {200, 204, 401, 500}, b \in Bodies }

Outcomes(endpoint) ==
    { o \in ServerOutcomes(endpoint) :
        o.raised \/ o.body \in BodiesOf(endpoint, o.status_code) }

\* response.json() succeeds
IsJson(resp) == resp.body \in Bodies \ {"text"}

\* ------------------------------------------------------------ make_request
ContentType == "Content-Type" :> <<"application/json">>

\* (a variant that prefixes every API key, whatever it contains)
PrimaryHeadersAlwaysPrefixed ==
    IF auth_type = "JWT Token" /\ jwt_token # <<>>
    THEN IF StartsWith(Strip(jwt_token), <<"Bearer", " ">>)
         THEN ContentType @@ ("Authorization" :> Strip(jwt_token))
         ELSE ContentType @@ ("Authorization" :> (<<"Bearer", " ">> \o Strip(jwt_token)))
    ELSE IF auth_type = "API Key" /\ api_key # <<>>
    THEN ContentType @@ ("Authorization" :> (<<"Bearer", " ">> \o api_key))
    ELSE ContentType

\* the headers of the primary request
PrimaryHeaders ==
    IF auth_type = "JWT Token" /\ jwt_token # <<>>
    THEN IF StartsWith(Strip(jwt_token), <<"Bearer", " ">>)
         THEN ContentType @@ ("Authorization" :> Strip(jwt_token))
         ELSE ContentType @@ ("Authorization" :> (<<"Bearer", " ">> \o Strip(jwt_token)))
    ELSE IF auth_type = "API Key" /\ api_key # <<>>
    THEN IF ContainsBearer(api_key)
         THEN ContentType @@ ("Authorization" :> api_key)
         ELSE ContentType @@ ("Authorization" :> (<<"Bearer", " ">> \o api_key))
    ELSE ContentType

\* alt_headers: the header shapes tried after a 401, in list order
AltHeaders ==
    << ContentType @@ ("Authorization" :> api_key),
       ContentType @@ ("x-api-key" :> api_key),
       ContentType @@ ("X-API-KEY" :> api_key) >>

\* auth = (username, password) for Basic Auth with both fields, else None
BasicAuthPair ==
    IF auth_type = "Basic Auth" /\ username # <<>> /\ password # <<>>
    THEN << username, password >>
    ELSE <<>>

\* the condition of the fallback loop
\* (a variant that also retries for the other auth types)
WantsFallbackAnyAuth(response) == response.status_code = 401

\* (a variant that retries an API-key call after any error status)
WantsFallbackAnyError(response) ==
    response.status_code >= 400 /\ auth_type = "API Key" /\ api_key # <<>>

WantsFallback(response) ==
    response.status_code = 401 /\ auth_type = "API Key" /\ api_key # <<>>

\* one physical HTTP request with what came back; POST carries json=json_data.
\* Every call of requests.get/post yields a response object of its own:
\* `attempt` is the position of the request within its make_request call
Physical(method, endpoint, headers, json_data, outcome, n) ==
    [ method |-> method, endpoint |-> endpoint, headers |-> headers,
      json |-> IF method = "GET" THEN <<>> ELSE json_data,
      auth |-> BasicAuthPair,
      resp |-> [ raised |-> outcome.raised, status_code |-> outcome.status_code,
                 body |-> outcome.body, attempt |-> n ] ]

\* what make_request returns when every alternate answered 401
\* (a variant returning the response of the last alternate)
AfterExhaustedLast(response, sent) == << sent[Len(sent)].resp >>

AfterExhausted(response, sent) == << response >>

\* what the except clause returns
\* (a variant that falls back to the primary response when it has one)
OnExceptionKeepPrimary(sent) ==
    IF Len(sent) > 1 THEN << sent[1].resp >> ELSE <<>>

OnException(sent) == <<>>

\* the order in which the loop visits alt_headers
\* (a variant visiting them in reverse)
AltOrderReversed(i) == AltHeaders[Len(AltHeaders) + 1 - i]

AltOrder(i) == AltHeaders[i]

\* for alt_header in alt_headers: the runs of the loop from its i-th
\* iteration on, `response` being the primary response and `sent` the
\* requests issued so far
RECURSIVE AltLoop(_, _, _, _, _, _)
AltLoop(i, method, endpoint, json_data, response, sent) ==
    IF i > Len(AltHeaders)
    THEN { [ sent |-> sent, returned |-> AfterExhausted(response, sent) ] }
    ELSE UNION {
        LET sent2 == Append(sent, Physical(method, endpoint, AltOrder(i), json_data, o,
                                           Len(sent) + 1))
        IN  IF o.raised
            THEN { [ sent |-> sent2, returned |-> OnException(sent2) ] }
            ELSE IF o.status_code # 401
            THEN { [ sent |-> sent2, returned |-> << sent2[Len(sent2)].resp >> ] }
            ELSE AltLoop(i + 1, method, endpoint, json_data, response, sent2)
        : o \in Outcomes(endpoint) }

\* make_request(endpoint, method, json_data): every way the call can go,
\* as the requests it sends and the value it returns (<<>> is None)
MakeRequest(endpoint, method, json_data) ==
    UNION {
        LET sent == << Physical(method, endpoint, PrimaryHeaders, json_data, o, 1) >>
            response == sent[1].resp
        IN  IF o.raised
            THEN { [ sent |-> sent, returned |-> OnException(sent) ] }
            ELSE IF WantsFallback(response)
            THEN AltLoop(1, method, endpoint, json_data, response, sent)
            ELSE { [ sent |-> sent, returned |-> << response >> ] }
        : o \in Outcomes(endpoint) }

\* a make_request call as a run of the script records it
Call(endpoint, method, json_data, run) ==
    [ endpoint |-> endpoint, method |-> method, json_data |-> json_data,
      sent |-> run.sent, returned |-> run.returned ]

\* bool(response): a requests.Response is truthy when its status is below
\* 400, and None is falsy
Truthy(returned) == returned # <<>> /\ returned[1].status_code < 400

\* --------------------------------------------------------- script re-runs
\* a run in which no button evaluates to True: nothing is sent or reported
NoButton ==
    /\ pressed' = "none"
    /\ shown' = <<>>
    /\ calls' = <<>>
    /\ direct' = <<>>
    /\ df_data' = <<>>
    /\ cleanup_logs' = <<>>
    /\ UNCHANGED job_list
    /\ UNCHANGED nCalls
    /\ UNCHANGED <<monitorVars, replVars>>

\* the credential widgets exist only under their own auth type (lines
\* 23-30); a widget that is not rendered loses its value
SetAuthType(t) ==
    /\ t # auth_type
    /\ auth_type' = t
    /\ jwt_token' = <<>>
    /\ api_key' = <<>>
    /\ username' = <<>>
    /\ password' = <<>>
    /\ UNCHANGED <<workspace_input, directory_input, slug_patterns_input, confirmation>>
    /\ UNCHANGED recovery_widgets
    /\ NoButton

SetJwtToken(v) ==
    /\ auth_type = "JWT Token"
    /\ jwt_token' = v
    /\ UNCHANGED <<auth_type, api_key, username, password, workspace_input,
                   directory_input, slug_patterns_input, confirmation>>
    /\ UNCHANGED recovery_widgets
    /\ NoButton

SetApiKey(v) ==
    /\ auth_type = "API Key"
    /\ api_key' = v
    /\ UNCHANGED <<auth_type, jwt_token, username, password, workspace_input,
                   directory_input, slug_patterns_input, confirmation>>
    /\ UNCHANGED recovery_widgets
    /\ NoButton

SetUsername(v) ==
    /\ auth_type = "Basic Auth"
    /\ username' = v
    /\ UNCHANGED <<auth_type, jwt_token, api_key, password, workspace_input,
                   directory_input, slug_patterns_input, confirmation>>
    /\ UNCHANGED recovery_widgets
    /\ NoButton

SetPassword(v) ==
    /\ auth_type = "Basic Auth"
    /\ password' = v
    /\ UNCHANGED <<auth_type, jwt_token, api_key, username, workspace_input,
                   directory_input, slug_patterns_input, confirmation>>
    /\ UNCHANGED recovery_widgets
    /\ NoButton

SetWorkspaceInput(v) ==
    /\ workspace_input' = v
    /\ UNCHANGED <<auth_type, jwt_token, api_key, username, password,
                   directory_input, slug_patterns_input, confirmation>>
    /\ UNCHANGED recovery_widgets
    /\ NoButton

SetDirectoryInput(v) ==
    /\ directory_input' = v
    /\ UNCHANGED <<auth_type, jwt_token, api_key, username, password,
                   workspace_input, slug_patterns_input, confirmation>>
    /\ UNCHANGED recovery_widgets
    /\ NoButton

SetSlugPatternsInput(v) ==
    /\ slug_patterns_input' = v
    /\ UNCHANGED <<auth_type, jwt_token, api_key, username, password,
                   workspace_input, directory_input, confirmation>>
    /\ UNCHANGED recovery_widgets
    /\ NoButton

SetConfirmation(v) ==
    /\ confirmation' = v
    /\ UNCHANGED <<auth_type, jwt_token, api_key, username, password,
                   workspace_input, directory_input, slug_patterns_input>>
    /\ UNCHANGED recovery_widgets
    /\ NoButton

\* ------------------------------------ "Clean Workspaces and Directories"
CleanButton == "Clean Workspaces and Directories"

MsgConfirm == "You must type the confirmation phrase exactly to proceed"
MsgJwt == "JWT Token is required"
MsgApiKey == "API Key is required"
MsgBasic == "Username and password are required for Basic Auth"
MsgEmpty == "You must provide at least one workspace, directory, or slug pattern to clean"

\* the elif chain on the credentials of the active auth type; "" when none
\* of its branches is taken
CredentialError ==
    IF auth_type = "JWT Token" /\ jwt_token = <<>> THEN MsgJwt
    ELSE IF auth_type = "API Key" /\ api_key = <<>> THEN MsgApiKey
    ELSE IF auth_type = "Basic Auth" /\ (username = <<>> \/ password = <<>>) THEN MsgBasic
    ELSE ""

\* (a variant that compares the trimmed phrase)
PreParseErrorTrimmed ==
    IF Strip(confirmation) # ConfirmPhrase THEN MsgConfirm ELSE CredentialError

\* (a variant that looks at the credentials before the phrase)
PreParseErrorCredentialsFirst ==
    IF CredentialError # "" THEN CredentialError
    ELSE IF confirmation # ConfirmPhrase THEN MsgConfirm
    ELSE ""

\* the if/elif chain before the identifier lists are parsed
PreParseError ==
    IF confirmation # ConfirmPhrase THEN MsgConfirm ELSE CredentialError

\* (a variant that tests the raw fields instead of the parsed lists)
SelectionEmptyUntrimmed ==
    /\ workspace_input = <<>>
    /\ directory_input = <<>>
    /\ slug_patterns_input = <<>>

\* not workspaces and not directories and not slug_patterns
SelectionEmpty ==
    /\ ParseLines(workspace_input) = <<>>
    /\ ParseLines(directory_input) = <<>>
    /\ ParseLines(slug_patterns_input) = <<>>

\* json_data of the cleanup request
CleanupJson ==
    [ workspaces |-> ParseLines(workspace_input),
      directories |-> ParseLines(directory_input),
      slugPatterns |-> ParseLines(slug_patterns_input),
      confirmPhrase |-> confirmation ]

\* response_data["logFile"] of a cleanup response
CleanupLogFile == << "/", "app", "/", "logs", "/", "workspace-cleanup-1.log" >>

\* path.split("/")[-1]
RECURSIVE Basename(_)
Basename(path) ==
    IF \E i \in 1..Len(path) : path[i] = "/"
    THEN Basename(Tail(path))
    ELSE path

CheckLogButton == "Check Log File"

\* the request of the "Check Log File" block: the log endpoint keyed by the
\* last path segment of the logFile
CheckLogFileRequest(logFile) ==
    [ method |-> "GET", endpoint |-> LogEndpoint, logFile |-> Basename(logFile) ]

\* what the handler reports about the value make_request returned.  The
\* "Check Log File" button is created by this run, which the Clean button
\* caused: st.button returns False for it and its block is skipped
CleanupReport(returned) ==
    IF Truthy(returned) /\ returned[1].status_code = 200
    THEN IF IsJson(returned[1])
         THEN << "Raw Server Response", "Cleanup process has been started!" >>
              \o ( IF returned[1].body = "json+logFile"
                   THEN << "Log file", "Cleanup Progress", "button: Check Log File" >>
                   ELSE <<>> )
         ELSE << "Raw Server Response", "Error parsing server response" >>
    ELSE << "Failed to start cleanup process" >>
         \o ( IF Truthy(returned) THEN << "Server response" >> ELSE <<>> )

\* (a variant that skips a submission equal to the one of the previous run)
CleanDispatchOnce(json_data) ==
    IF calls # <<>> /\ calls[1].json_data = << json_data >>
    THEN { [ calls |-> <<>>, shown |-> << "Will clean" >> ] }
    ELSE { [ calls |-> << Call(CleanupEndpoint, "POST", << json_data >>, run) >>,
             shown |-> << "Will clean" >> \o CleanupReport(run.returned) ] :
           run \in MakeRequest(CleanupEndpoint, "POST", << json_data >>) }

\* the else branch once the selection is not empty: the one make_request
\* call and the report
CleanDispatch(json_data) ==
    { [ calls |-> << Call(CleanupEndpoint, "POST", << json_data >>, run) >>,
        shown |-> << "Will clean" >> \o CleanupReport(run.returned) ] :
      run \in MakeRequest(CleanupEndpoint, "POST", << json_data >>) }

\* if st.button("Clean Workspaces and Directories"): ...
PressClean ==
    /\ UNCHANGED <<monitorVars, replVars>>
    /\ df_data' = <<>>
    /\ cleanup_logs' = <<>>
    /\ UNCHANGED job_list
    /\ pressed' = CleanButton
    /\ UNCHANGED widgets
    /\ direct' = <<>>
    /\ IF PreParseError # ""
       THEN /\ shown' = << PreParseError >>
            /\ calls' = <<>>
            /\ UNCHANGED nCalls
       ELSE IF SelectionEmpty
       THEN /\ shown' = << MsgEmpty >>
            /\ calls' = <<>>
            /\ UNCHANGED nCalls
       ELSE /\ nCalls < MaxCalls
            /\ \E r \in CleanDispatch(CleanupJson) :
                 /\ calls' = r.calls
                 /\ shown' = r.shown
                 /\ nCalls' = nCalls + Len(r.calls)

\* if st.button("Check Log File"): ...  A press of the button re-runs the
\* script from the top; in that run the Clean button evaluates to False, so
\* the block that creates "Check Log File" and holds its handler is not
\* entered: the run sends nothing and the cleanup report is gone
PressCheckLogFile ==
    /\ "button: Check Log File" \in { shown[i] : i \in 1..Len(shown) }
    /\ pressed' = CheckLogButton
    /\ shown' = <<>>
    /\ calls' = <<>>
    /\ direct' = <<>>
    /\ df_data' = <<>>
    /\ cleanup_logs' = <<>>
    /\ UNCHANGED job_list
    /\ UNCHANGED <<widgets, nCalls, monitorVars, replVars>>

\* ----------------------------------------------------- "List Cleanup Logs"
ListLogsButton == "List Cleanup Logs"

ViewSelectedButton == "View Selected Log"

\* the longest job list the service is taken to hold
MaxJobs == 3

\* the entries a job list is made of: names with and without the text
\* "workspace-cleanup", and a job object, of which `in` tests the keys
JobSamples ==
    { << "workspace-cleanup", "-1.log" >>, << "import", "-2.log" >>,
      << "logs", "/", "workspace-cleanup", "-3.log" >>,
      << "orgName", "jobId", "status" >> }

\* every job list of at most n entries
RECURSIVE JobLists(_)
JobLists(n) ==
    IF n = 0 THEN { <<>> }
    ELSE LET shorter == JobLists(n - 1)
         IN  shorter \cup { Append(l, j) : l \in shorter, j \in JobSamples }

DefaultJobList ==
    << << "workspace-cleanup", "-1.log" >>, << "import", "-2.log" >>,
       << "logs", "/", "workspace-cleanup", "-3.log" >> >>

\* jobs_data["jobs"]: the names the jobs endpoint lists
JobsOf(body) ==
    IF body = "jobs:mixed" THEN job_list
    ELSE IF body = "jobs:other" THEN << << "import", "-2.log" >> >>
    ELSE <<>>

\* jobs_data.get("success")
JobsSuccess(body) == body \in {"jobs:mixed", "jobs:other", "jobs:empty"}

\* "workspace-cleanup" in job
IsCleanupLog(job) == \E i \in 1..Len(job) : job[i] = "workspace-cleanup"

\* (a variant that lists the newest log first)
CleanupLogsNewestFirst(jobs) ==
    LET kept == SelectSeq(jobs, IsCleanupLog)
    IN  [ i \in 1..Len(kept) |-> kept[Len(kept) + 1 - i] ]

\* [job for job in jobs if "workspace-cleanup" in job]
CleanupLogs(jobs) == SelectSeq(jobs, IsCleanupLog)

\* the request of the "View Selected Log" block: the selected entry as it is
ViewSelectedLogRequest(selected_log) ==
    [ method |-> "GET", endpoint |-> LogEndpoint, logFile |-> selected_log ]

\* the report of the handler; "View Selected Log" is created by this run
\* and evaluates to False in it
ListLogsReport(returned) ==
    IF Truthy(returned) /\ returned[1].status_code = 200
    THEN IF ~IsJson(returned[1])
         THEN << "Error parsing jobs response", "Raw response" >>
         ELSE IF JobsSuccess(returned[1].body) /\ JobsOf(returned[1].body) # <<>>
         THEN IF CleanupLogs(JobsOf(returned[1].body)) # <<>>
              THEN << "selectbox: Select a log file to view",
                      "button: View Selected Log" >>
              ELSE << "No cleanup logs found" >>
         ELSE << "No jobs found or unexpected response format", "Raw response" >>
    ELSE << "Failed to list logs" >>
         \o ( IF Truthy(returned) THEN << "Server response" >> ELSE <<>> )

\* cleanup_logs, the options of the selectbox the run shows
ListedLogs(returned) ==
    IF Truthy(returned) /\ returned[1].status_code = 200 /\ IsJson(returned[1])
       /\ JobsSuccess(returned[1].body) /\ JobsOf(returned[1].body) # <<>>
    THEN CleanupLogs(JobsOf(returned[1].body))
    ELSE <<>>

\* if st.button("List Cleanup Logs"): ...
PressListCleanupLogs ==
    /\ nCalls < MaxCalls
    /\ pressed' = ListLogsButton
    /\ direct' = <<>>
    /\ df_data' = <<>>
    /\ UNCHANGED job_list
    /\ UNCHANGED <<widgets, monitorVars, replVars>>
    /\ \E run \in MakeRequest(JobsEndpoint, "GET", <<>>) :
         /\ calls' = << Call(JobsEndpoint, "GET", <<>>, run) >>
         /\ shown' = ListLogsReport(run.returned)
         /\ cleanup_logs' = ListedLogs(run.returned)
         /\ nCalls' = nCalls + 1

\* if st.button("View Selected Log"): ...  As for "Check Log File": the run
\* the press causes does not enter the "List Cleanup Logs" block
PressViewSelectedLog ==
    /\ "button: View Selected Log" \in { shown[i] : i \in 1..Len(shown) }
    /\ pressed' = ViewSelectedButton
    /\ shown' = <<>>
    /\ calls' = <<>>
    /\ direct' = <<>>
    /\ df_data' = <<>>
    /\ cleanup_logs' = <<>>
    /\ UNCHANGED job_list
    /\ UNCHANGED <<widgets, nCalls, monitorVars, replVars>>

\* ----------------------------------------------- "Test Authentication"
TestAuthButton == "Test Authentication"

\* the branch with the JWT debugging and the direct second GET
TestAuthJwtRetry(returned) ==
    /\ Truthy(returned)
    /\ returned[1].status_code = 401
    /\ auth_type = "JWT Token"
    /\ jwt_token # <<>>

TestAuthRetryHeaders ==
    IF StartsWith(Strip(jwt_token), <<"Bearer", " ">>)
    THEN ContentType @@ ("Authorization" :> SubSeq(Strip(jwt_token), 3, Len(Strip(jwt_token))))
    ELSE ContentType @@ ("Authorization" :> (<<"Bearer", " ">> \o Strip(jwt_token)))

\* requests.get(alt_url, headers=headers) of that branch, else nothing
TestAuthRetry(returned) ==
    IF TestAuthJwtRetry(returned)
    THEN { << [ method |-> "GET", endpoint |-> PingEndpoint,
                headers |-> TestAuthRetryHeaders, json |-> <<>>,
                auth |-> <<>>, resp |-> o ] >> : o \in Outcomes(PingEndpoint) }
    ELSE { <<>> }

TestAuthReport(returned) ==
    IF Truthy(returned)
    THEN IF returned[1].status_code = 200 THEN << "Authentication successful!" >>
         ELSE IF returned[1].status_code = 401
         THEN << "Authentication failed: Unauthorized (401)" >>
         ELSE << "Received status code" >>
    ELSE << "Request failed - check if AnythingLLM is running" >>

\* if st.sidebar.button("Test Authentication"): ...
PressTestAuth ==
    /\ UNCHANGED <<monitorVars, replVars>>
    /\ df_data' = <<>>
    /\ cleanup_logs' = <<>>
    /\ UNCHANGED job_list
    /\ pressed' = TestAuthButton
    /\ UNCHANGED widgets
    /\ nCalls < MaxCalls
    /\ nCalls' = nCalls + 1
    /\ \E run \in MakeRequest(PingEndpoint, "GET", <<>>) :
         /\ calls' = << Call(PingEndpoint, "GET", <<>>, run) >>
         /\ shown' = TestAuthReport(run.returned)
         /\ direct' \in TestAuthRetry(run.returned)

\* -------------------------------------------- "Test Server Connection"
TestServerButton == "Test Server Connection"

TestServerReport(o) ==
    IF o.raised THEN << "Connection failed" >>
    ELSE << "Server responded with status code" >>
         \o ( IF o.status_code = 200
              THEN << "Server is reachable!" >>
              ELSE << "Server is reachable but returned an unexpected status" >> )

\* if st.sidebar.button("Test Server Connection"): ...
PressTestServer ==
    /\ UNCHANGED <<monitorVars, replVars>>
    /\ df_data' = <<>>
    /\ cleanup_logs' = <<>>
    /\ UNCHANGED job_list
    /\ pressed' = TestServerButton
    /\ UNCHANGED widgets
    /\ UNCHANGED nCalls
    /\ calls' = <<>>
    /\ \E o \in Outcomes(HealthEndpoint) :
         /\ direct' = << [ method |-> "GET", endpoint |-> HealthEndpoint,
                           headers |-> <<>>, json |-> <<>>, auth |-> <<>>,
                           resp |-> o ] >>
         /\ shown' = TestServerReport(o)

\* ------------------------------------------------------- specifications
\* the page as first rendered: the first radio option, empty credential and
\* confirmation fields, the prefilled identifier lists
MonitorInit ==
    /\ auth_method = "JWT Token"
    /\ auth_token = <<>>
    /\ gh_org = <<>>
    /\ gh_token = <<>>
    /\ import_jobs = <<>>
    /\ all_jobs = <<>>
    /\ selected_job_idx = 1
    /\ log_job_idx = 1
    /\ gh_token_resume = <<>>
    /\ direct_log_path = <<>>
    /\ m_pressed = "none"
    /\ m_shown = <<>>
    /\ m_sent = <<>>
    /\ m_details = <<>>

ReplInit ==
    /\ r_pc = "start"
    /\ r_argv \in BOOLEAN
    /\ r_exit = -1
    /\ lancedb_uri = <<>>
    /\ table_names = <<>>
    /\ table_info = <<>>
    /\ r_enumerations = 0
    /\ table_name = <<>>
    /\ r_out = "none"
    /\ r_engine = [ op |-> "none", arg |-> <<>> ]
    /\ r_input = [ kind |-> "none", text |-> <<>> ]

\* the other two programs, not started
MonitorIdle == MonitorInit

ReplIdle == ReplInit /\ r_argv = FALSE

Init ==
    /\ MonitorIdle
    /\ ReplIdle
    /\ github_org_filter = <<>>
    /\ gh_recovery_dry_run = TRUE
    /\ df_data = <<>>
    /\ job_list = DefaultJobList
    /\ cleanup_logs = <<>>
    /\ auth_type = "JWT Token"
    /\ jwt_token = <<>>
    /\ api_key = <<>>
    /\ username = <<>>
    /\ password = <<>>
    /\ workspace_input = DefaultWorkspaces
    /\ directory_input = DefaultDirectories
    /\ slug_patterns_input = DefaultSlugPatterns
    /\ confirmation = <<>>
    /\ pressed = "none"
    /\ shown = <<>>
    /\ calls = <<>>
    /\ direct = <<>>
    /\ nCalls = 0

Next ==
    \/ \E t \in AuthTypes : SetAuthType(t)
    \/ \E v \in JwtSamples : SetJwtToken(v)
    \/ \E v \in ApiKeySamples : SetApiKey(v)
    \/ \E v \in NameSamples : SetUsername(v)
    \/ \E v \in SecretSamples : SetPassword(v)
    \/ \E v \in WorkspaceSamples : SetWorkspaceInput(v)
    \/ \E v \in DirectorySamples : SetDirectoryInput(v)
    \/ \E v \in SlugPatternSamples : SetSlugPatternsInput(v)
    \/ \E v \in ConfirmationSamples : SetConfirmation(v)
    \/ PressClean
    \/ PressTestAuth
    \/ PressTestServer
    \/ PressCheckLogFile
    \/ PressListCleanupLogs
    \/ PressViewSelectedLog

Spec == Init /\ [][Next]_vars

\* the line parsing over every short identifier text: the user has typed
\* the phrase and some text into the workspaces field and cleared the two
\* other fields, and presses the cleanup button
ParseInit ==
    /\ MonitorIdle
    /\ ReplIdle
    /\ github_org_filter = <<>>
    /\ gh_recovery_dry_run = TRUE
    /\ df_data = <<>>
    /\ job_list = DefaultJobList
    /\ cleanup_logs = <<>>
    /\ auth_type = "No Auth"
    /\ jwt_token = <<>>
    /\ api_key = <<>>
    /\ username = <<>>
    /\ password = <<>>
    /\ workspace_input \in TextsUpTo(MaxLen)
    /\ directory_input = <<>>
    /\ slug_patterns_input = <<>>
    /\ confirmation = ConfirmPhrase
    /\ pressed = "none"
    /\ shown = <<>>
    /\ calls = <<>>
    /\ direct = <<>>
    /\ nCalls = 0

ParseNext == PressClean

ParseSpec == ParseInit /\ [][ParseNext]_vars

\* ------------------------------ "Recover GitHub Organization Import"
RecoverButton == "Recover GitHub Organization Import"

OrgFilterSamples == { <<>>, <<"o">>, <<" ">> }

SetGithubOrgFilter(v) ==
    /\ github_org_filter' = v
    /\ UNCHANGED <<auth_type, jwt_token, api_key, username, password,
                   workspace_input, directory_input, slug_patterns_input,
                   confirmation, gh_recovery_dry_run>>
    /\ NoButton

SetGhRecoveryDryRun(v) ==
    /\ gh_recovery_dry_run' = v
    /\ UNCHANGED <<auth_type, jwt_token, api_key, username, password,
                   workspace_input, directory_input, slug_patterns_input,
                   confirmation, github_org_filter>>
    /\ NoButton

\* (a variant that sends the filter input as it is)
RecoverPayloadRaw ==
    [ orgNameFilter |-> << github_org_filter >>, dryRun |-> gh_recovery_dry_run ]

\* payload of the recovery request; <<>> is None
RecoverPayload ==
    [ orgNameFilter |-> IF github_org_filter # <<>> THEN << github_org_filter >> ELSE <<>>,
      dryRun |-> gh_recovery_dry_run ]

\* recovery_response.get("success")
RecoverySuccess(body) == body \in {"rec:details", "rec:summary+logFile"}

\* results.get("details"): one row for each combination of found and fixed
RecoveryDetails(body) ==
    IF body = "rec:details"
    THEN << [ slug |-> "w1", found |-> TRUE, fixed |-> TRUE,
              directory |-> <<"d1">>, error |-> <<>> ],
            [ slug |-> "w2", found |-> TRUE, fixed |-> FALSE,
              directory |-> <<"d2">>, error |-> <<>> ],
            [ slug |-> "w3", found |-> FALSE, fixed |-> FALSE,
              directory |-> <<>>, error |-> <<"e">> ],
            [ slug |-> "w4", found |-> FALSE, fixed |-> TRUE,
              directory |-> <<>>, error |-> <<>> ] >>
    ELSE <<>>

\* "✅" if item["fixed"] else "❌" if not gh_recovery_dry_run else "⏩ (dry run)"
FixedColumn(item) ==
    IF item.fixed THEN "check"
    ELSE IF ~gh_recovery_dry_run THEN "cross"
    ELSE "skip (dry run)"

\* one entry of df_data
RecoveryRow(item) ==
    [ Workspace |-> item.slug,
      Found |-> IF item.found THEN "check" ELSE "cross",
      Fixed |-> FixedColumn(item),
      Directory |-> IF item.directory # <<>> THEN item.directory ELSE <<"Not found">>,
      Error |-> item.error ]

\* df_data of the run
RecoveryRows(returned) ==
    IF Truthy(returned) /\ returned[1].status_code = 200
       /\ IsJson(returned[1]) /\ RecoverySuccess(returned[1].body)
    THEN [ i \in 1..Len(RecoveryDetails(returned[1].body)) |->
             RecoveryRow(RecoveryDetails(returned[1].body)[i]) ]
    ELSE <<>>

\* what the handler reports about the value make_request returned; a 200
\* whose success is not true reports nothing
RecoverReport(returned) ==
    IF Truthy(returned) /\ returned[1].status_code = 200
    THEN IF ~IsJson(returned[1])
         THEN << "Error parsing recovery response" >>
         ELSE IF RecoverySuccess(returned[1].body)
         THEN << "Recovery process completed!", "summary" >>
              \o ( IF returned[1].body = "rec:summary+logFile"
                   THEN << "Log file" >> ELSE <<>> )
              \o ( IF RecoveryDetails(returned[1].body) # <<>>
                   THEN << "Detailed Results" >> ELSE <<>> )
         ELSE <<>>
    ELSE IF Truthy(returned)
    THEN << "Error: status",
            IF IsJson(returned[1]) THEN "Server error" ELSE "Failed to parse response" >>
    ELSE << "Error: No response" >>

\* if st.button("Recover GitHub Organization Import"): ...
PressRecover ==
    /\ nCalls < MaxCalls
    /\ pressed' = RecoverButton
    /\ direct' = <<>>
    /\ UNCHANGED <<widgets, monitorVars, replVars>>
    /\ \E run \in MakeRequest(RecoverEndpoint, "POST", << RecoverPayload >>) :
         /\ calls' = << Call(RecoverEndpoint, "POST", << RecoverPayload >>, run) >>
         /\ shown' = RecoverReport(run.returned)
         /\ df_data' = RecoveryRows(run.returned)
         /\ cleanup_logs' = <<>>
         /\ UNCHANGED job_list
         /\ nCalls' = nCalls + 1

\* the recovery expander, the cleanup inputs left at their defaults
RecoveryNext ==
    \/ \E t \in AuthTypes : SetAuthType(t)
    \/ \E v \in ApiKeySamples : SetApiKey(v)
    \/ \E v \in OrgFilterSamples : SetGithubOrgFilter(v)
    \/ \E v \in BOOLEAN : SetGhRecoveryDryRun(v)
    \/ PressRecover

RecoverySpec == Init /\ [][RecoveryNext]_vars

\* ===================================================== the import monitor
AuthMethods == {"JWT Token", "API Key"}

AuthTokenSamples == { <<>>, <<"t">>, <<"Bearer", " ", "t">> }
OrgSamples == { <<>>, <<"acme">> }
GhTokenSamples == { <<>>, <<"g">> }

DirectPathSamples == { <<>>, <<"/", "app", "/", "logs", "/", "import-1.log">> }

\* the most entries st.session_state.import_jobs is followed to
MaxImports == 1

ImportPath == "/ext/github/org-import"
JobsPath == "/ext/github/org-import/jobs"
EnvPath == "/system/env"
StatusPath == "/ext/github/org-import/status"
LogPath == "/ext/github/org-import/log"

\* the jobs the service lists: one running with a failed repository and a
\* log file, one completed with failures and without a log file, one
\* running without failures
RunningJob ==
    [ orgName |-> "acme", jobId |-> "1", status |-> "running", failed |-> 1,
      progressFile |-> <<"p1">>,
      logFile |-> <<"/", "app", "/", "logs", "/", "import-1.log">> ]

CompletedJob ==
    [ orgName |-> "acme", jobId |-> "2", status |-> "completed", failed |-> 2,
      progressFile |-> <<"p2">>, logFile |-> <<>> ]

CleanJob ==
    [ orgName |-> "acme", jobId |-> "4", status |-> "running", failed |-> 0,
      progressFile |-> <<"p4">>, logFile |-> <<"import-4.log">> ]

ListedJobs == << RunningJob, CompletedJob, CleanJob >>

\* requests.get / requests.post raises or returns a response.  A body is
\* JSON with success true ("ok"; for the jobs endpoint with or without
\* jobs), JSON with success false ("fail") or not JSON ("text")
MonitorRaised == [raised |-> TRUE, status_code |-> 0, body |-> "none"]

MonitorBodies(path, status) ==
    IF status # 200 THEN {"fail", "text"}
    ELSE IF path = JobsPath THEN {"jobs", "nojobs", "fail", "text"}
    ELSE {"ok", "fail", "text"}

MonitorOutcomes(path) ==
    { MonitorRaised } \cup
    { o \in [ raised : {FALSE}, status_code : {200, 500},
              body : {"ok", "jobs", "nojobs", "fail", "text"} ] :
        o.body \in MonitorBodies(path, o.status_code) }

\* result.get("success")
ResultSuccess(o) == o.body \in {"ok", "jobs", "nojobs"}

\* result.get("jobs", [])
ResultJobs(o) == IF o.body = "jobs" THEN ListedJobs ELSE <<>>

\* get_auth_headers(content_type)
GetAuthHeaders(content_type) ==
    IF auth_token # <<>>
    THEN IF content_type
         THEN ContentType @@ ("Authorization" :> (<<"Bearer", " ">> \o auth_token))
         ELSE "Authorization" :> (<<"Bearer", " ">> \o auth_token)
    ELSE IF content_type THEN ContentType ELSE <<>>

\* value.split(" ")[0]
RECURSIVE FirstWord(_)
FirstWord(v) ==
    IF v = <<>> \/ Head(v) = " " THEN <<>> ELSE << Head(v) >> \o FirstWord(Tail(v))

\* value.split(" ")[0] + " xxxxx" if " " in value else "xxxxx"
MaskValue(v) ==
    IF \E i \in 1..Len(v) : v[i] = " "
    THEN FirstWord(v) \o << " ", "xxxxx" >>
    ELSE << "xxxxx" >>

\* headers_to_show of display_request_response
MaskHeaders(headers) ==
    [ k \in DOMAIN headers |->
        IF k = "Authorization" THEN MaskValue(headers[k]) ELSE headers[k] ]

\* body_to_show of display_request_response (<<>> when there is no body)
MaskBody(body) ==
    IF body = <<>> THEN <<>>
    ELSE IF "accessToken" \in DOMAIN body[1]
    THEN << [ body[1] EXCEPT !.accessToken = << "xxxxx" >> ] >>
    ELSE body

\* one HTTP request of the monitor with what came back
MonitorRequest(method, path, headers, params, body, o) ==
    [ method |-> method, path |-> path, headers |-> headers,
      params |-> params, json |-> body, resp |-> o ]

\* display_request_response(method, url, headers, body, response)
DisplayRequestResponse(method, path, headers, params, body) ==
    [ method |-> method, path |-> path, params |-> params,
      headers |-> MaskHeaders(headers), body |-> MaskBody(body) ]

\* st.session_state.all_jobs as a list ([] while absent)
Jobs(option) == IF option = <<>> THEN <<>> ELSE option[1]

\* "all_jobs" in st.session_state and st.session_state.all_jobs
JobsShown(option) == Jobs(option) # <<>>

\* (a variant that offers the resume section for every job not completed)
ResumeOfferedNotCompleted(option, idx) ==
    /\ JobsShown(option)
    /\ Jobs(option)[idx].status # "completed"

\* selected_job["status"] != "completed" and failed > 0
ResumeOffered(option, idx) ==
    /\ JobsShown(option)
    /\ Jobs(option)[idx].status # "completed"
    /\ Jobs(option)[idx].failed > 0

\* selected_job["logFile"] of the job chosen in the log tab
LogOffered(option, idx) ==
    /\ JobsShown(option)
    /\ Jobs(option)[idx].logFile # <<>>

\* the widgets a run draws after its handler: the two job selectors exist
\* while jobs are listed and start over when the options change; the resume
\* token input exists while the selected job can be resumed.  A widget a
\* run does not draw loses its value
Rerun(sel, log, tok) ==
    LET keep == JobsShown(all_jobs') /\ Len(Jobs(all_jobs')) = Len(Jobs(all_jobs))
        sel2 == IF keep THEN sel ELSE 1
    IN  /\ selected_job_idx' = sel2
        /\ log_job_idx' = IF keep THEN log ELSE 1
        /\ gh_token_resume' = IF ResumeOffered(all_jobs', sel2) THEN tok ELSE <<>>

\* a run no button caused
MonitorNoButton ==
    /\ m_pressed' = "none"
    /\ m_shown' = <<>>
    /\ m_sent' = <<>>
    /\ m_details' = <<>>
    /\ UNCHANGED <<all_jobs, import_jobs, gh_org, gh_token>>
    /\ UNCHANGED cleanupVars
    /\ UNCHANGED replVars

SetAuthMethod(v) ==
    /\ auth_method' = v
    /\ UNCHANGED <<auth_token, direct_log_path>>
    /\ MonitorNoButton
    /\ Rerun(selected_job_idx, log_job_idx, gh_token_resume)

SetAuthToken(v) ==
    /\ auth_token' = v
    /\ UNCHANGED <<auth_method, direct_log_path>>
    /\ MonitorNoButton
    /\ Rerun(selected_job_idx, log_job_idx, gh_token_resume)

SetDirectLogPath(v) ==
    /\ direct_log_path' = v
    /\ UNCHANGED <<auth_method, auth_token>>
    /\ MonitorNoButton
    /\ Rerun(selected_job_idx, log_job_idx, gh_token_resume)

SetSelectedJob(i) ==
    /\ JobsShown(all_jobs)
    /\ i \in 1..Len(Jobs(all_jobs))
    /\ UNCHANGED <<auth_method, auth_token, direct_log_path>>
    /\ MonitorNoButton
    /\ Rerun(i, log_job_idx, gh_token_resume)

SetLogJob(i) ==
    /\ JobsShown(all_jobs)
    /\ i \in 1..Len(Jobs(all_jobs))
    /\ UNCHANGED <<auth_method, auth_token, direct_log_path>>
    /\ MonitorNoButton
    /\ Rerun(selected_job_idx, i, gh_token_resume)

SetGhTokenResume(v) ==
    /\ ResumeOffered(all_jobs, selected_job_idx)
    /\ UNCHANGED <<auth_method, auth_token, direct_log_path>>
    /\ MonitorNoButton
    /\ Rerun(selected_job_idx, log_job_idx, v)

\* a run a button caused: what it sent, reported and displayed
MonitorRun(button, sent, report, details) ==
    /\ m_pressed' = button
    /\ m_sent' = sent
    /\ m_shown' = report
    /\ m_details' = details
    /\ UNCHANGED <<auth_method, auth_token, direct_log_path>>
    /\ UNCHANGED cleanupVars
    /\ UNCHANGED replVars

\* the details shown once requests returned a response
DetailsIfAnswered(o, method, path, headers, params, body) ==
    IF o.raised THEN <<>>
    ELSE << DisplayRequestResponse(method, path, headers, params, body) >>

\* ------------------------------------------------------- "Start Import"
StartImportButton == "Start Import"

ImportBody(org, tok) == [ accessToken |-> tok, orgName |-> org ]

\* the entry appended to st.session_state.import_jobs (startedAt left out)
ImportJobEntry(org) ==
    [ orgName |-> org, progressFile |-> <<"p3">>,
      logFile |-> <<"/", "app", "/", "logs", "/", "import-3.log">> ]

ImportStarted(o) == ~o.raised /\ o.status_code = 200 /\ ResultSuccess(o)

ImportReport(o, org) ==
    IF o.raised THEN << "error: Request failed" >>
    ELSE IF o.status_code = 200
    THEN IF o.body = "text" THEN << "error: Request failed" >>
         ELSE IF ResultSuccess(o) THEN << "success: Import process started" >>
         ELSE << "error: Error" >>
    ELSE << "error: API Error" >>

\* the form is submitted with the values typed into it
SubmitImport(org, tok) ==
    /\ gh_org' = org
    /\ gh_token' = tok
    /\ UNCHANGED all_jobs
    /\ Rerun(selected_job_idx, log_job_idx, gh_token_resume)
    /\ IF org = <<>> \/ tok = <<>> \/ auth_token = <<>>
       THEN /\ MonitorRun(StartImportButton, <<>>,
                          << "error: All fields are required!" >>, <<>>)
            /\ UNCHANGED import_jobs
       ELSE /\ Len(import_jobs) < MaxImports
            /\ \E o \in MonitorOutcomes(ImportPath) :
                 /\ MonitorRun(StartImportButton,
                        << MonitorRequest("POST", ImportPath, GetAuthHeaders(TRUE),
                                          <<>>, << ImportBody(org, tok) >>, o) >>,
                        ImportReport(o, org),
                        DetailsIfAnswered(o, "POST", ImportPath, GetAuthHeaders(TRUE),
                                          <<>>, << ImportBody(org, tok) >>))
                 /\ import_jobs' = IF ImportStarted(o)
                                   THEN Append(import_jobs, ImportJobEntry(org))
                                   ELSE import_jobs

\* --------------------------------------------------- "Refresh Jobs List"
RefreshButton == "Refresh Jobs List"

RefreshReport(o) ==
    IF o.raised THEN << "error: Request failed" >>
    ELSE IF o.status_code = 200
    THEN IF o.body = "text" THEN << "error: Request failed" >>
         ELSE IF ResultSuccess(o) THEN <<>>
         ELSE << "error: Error" >>
    ELSE << "error: API Error" >>

\* (a variant that stores the jobs of every 200 response)
RefreshedJobsOnAny200(o) ==
    IF ~o.raised /\ o.status_code = 200
    THEN << ResultJobs(o) >>
    ELSE all_jobs

\* st.session_state.all_jobs after the handler
RefreshedJobs(o) ==
    IF ~o.raised /\ o.status_code = 200 /\ ResultSuccess(o)
    THEN << ResultJobs(o) >>
    ELSE all_jobs

PressRefresh ==
    /\ UNCHANGED <<gh_org, gh_token, import_jobs>>
    /\ \E o \in MonitorOutcomes(JobsPath) :
         /\ MonitorRun(RefreshButton,
                << MonitorRequest("GET", JobsPath, GetAuthHeaders(FALSE), <<>>, <<>>, o) >>,
                RefreshReport(o),
                DetailsIfAnswered(o, "GET", JobsPath, GetAuthHeaders(FALSE), <<>>, <<>>))
         /\ all_jobs' = RefreshedJobs(o)
    /\ Rerun(selected_job_idx, log_job_idx, gh_token_resume)

\* ------------------------------------- "Test Authentication" (monitor)
MonitorTestAuthButton == "Test Authentication"

MonitorTestAuthReport(o) ==
    IF o.raised THEN << "error: Connection test failed" >>
    ELSE IF o.status_code = 200 THEN << "success: Authentication successful!" >>
    ELSE << "error: Authentication failed" >>

PressMonitorTestAuth ==
    /\ UNCHANGED <<gh_org, gh_token, import_jobs, all_jobs>>
    /\ \E o \in MonitorOutcomes(EnvPath) :
         MonitorRun(MonitorTestAuthButton,
             << MonitorRequest("GET", EnvPath, GetAuthHeaders(FALSE), <<>>, <<>>, o) >>,
             MonitorTestAuthReport(o),
             DetailsIfAnswered(o, "GET", EnvPath, GetAuthHeaders(FALSE), <<>>, <<>>))
    /\ Rerun(selected_job_idx, log_job_idx, gh_token_resume)

\* --------------------------------------------------------- "Resume Jobs"
ResumeButton == "Resume Jobs"

ResumeBody ==
    [ progressFile |-> Jobs(all_jobs)[selected_job_idx].progressFile,
      resume |-> TRUE, accessToken |-> gh_token_resume ]

ResumeReport(o) ==
    IF o.raised THEN << "error: Request failed" >>
    ELSE IF o.status_code = 200
    THEN IF o.body = "text" THEN << "error: Request failed" >>
         ELSE IF ResultSuccess(o) THEN << "success: Resume process started!" >>
         ELSE << "error: Error" >>
    ELSE << "error: API Error" >>

\* if st.button("Resume Jobs") and gh_token_resume: ...
PressResume ==
    /\ ResumeOffered(all_jobs, selected_job_idx)
    /\ UNCHANGED <<gh_org, gh_token, import_jobs, all_jobs>>
    /\ Rerun(selected_job_idx, log_job_idx, gh_token_resume)
    /\ IF gh_token_resume = <<>>
       THEN MonitorRun(ResumeButton, <<>>, <<>>, <<>>)
       ELSE \E o \in MonitorOutcomes(StatusPath) :
              MonitorRun(ResumeButton,
                  << MonitorRequest("POST", StatusPath, GetAuthHeaders(TRUE), <<>>,
                                    << ResumeBody >>, o) >>,
                  ResumeReport(o),
                  DetailsIfAnswered(o, "POST", StatusPath, GetAuthHeaders(TRUE), <<>>,
                                    << ResumeBody >>))

\* --------------------------------------- "Check Status Without Resuming"
CheckStatusButton == "Check Status Without Resuming"

StatusBody ==
    [ progressFile |-> Jobs(all_jobs)[selected_job_idx].progressFile,
      resume |-> FALSE ]

StatusReport(o) ==
    IF o.raised THEN << "error: Request failed" >>
    ELSE IF o.status_code = 200
    THEN IF o.body = "text" THEN << "error: Request failed" >>
         ELSE IF ResultSuccess(o) THEN << "success: Status retrieved successfully" >>
         ELSE << "error: Error" >>
    ELSE << "error: API Error" >>

PressCheckStatus ==
    /\ ResumeOffered(all_jobs, selected_job_idx)
    /\ UNCHANGED <<gh_org, gh_token, import_jobs, all_jobs>>
    /\ Rerun(selected_job_idx, log_job_idx, gh_token_resume)
    /\ \E o \in MonitorOutcomes(StatusPath) :
         MonitorRun(CheckStatusButton,
             << MonitorRequest("POST", StatusPath, GetAuthHeaders(TRUE), <<>>,
                               << StatusBody >>, o) >>,
             StatusReport(o),
             DetailsIfAnswered(o, "POST", StatusPath, GetAuthHeaders(TRUE), <<>>,
                               << StatusBody >>))

\* ----------------------------------------------------------- "View Logs"
ViewLogsButton == "View Logs"

\* request_params of the View Logs handler
ViewLogsParams == "logFile" :> Jobs(all_jobs)[log_job_idx].logFile

ViewLogsReport(o) ==
    IF o.raised THEN << "error: Request failed" >>
    ELSE IF o.status_code = 200
    THEN IF o.body = "text" THEN << "error: Request failed" >>
         ELSE IF ResultSuccess(o)
         THEN << "Logs for", "Log Content", "Download Logs", "Response Metadata" >>
         ELSE << "error: Error" >>
    ELSE << "error: API Error" >>

PressViewLogs ==
    /\ LogOffered(all_jobs, log_job_idx)
    /\ UNCHANGED <<gh_org, gh_token, import_jobs, all_jobs>>
    /\ Rerun(selected_job_idx, log_job_idx, gh_token_resume)
    /\ \E o \in MonitorOutcomes(LogPath) :
         MonitorRun(ViewLogsButton,
             << MonitorRequest("GET", LogPath, GetAuthHeaders(FALSE), ViewLogsParams,
                               <<>>, o) >>,
             ViewLogsReport(o),
             DetailsIfAnswered(o, "GET", LogPath, GetAuthHeaders(FALSE), ViewLogsParams,
                               <<>>))

\* ----------------------------------------------------- "View Direct Log"
ViewDirectButton == "View Direct Log"

DirectLogParams == "logFile" :> direct_log_path

\* a 200 whose result has no success shows nothing
DirectLogReport(o) ==
    IF o.raised THEN << "error: Request failed" >>
    ELSE IF o.status_code = 200
    THEN IF o.body = "text" THEN << "error: Request failed" >>
         ELSE IF ResultSuccess(o) THEN << "Log Content", "Download Log" >>
         ELSE <<>>
    ELSE << "error: API Error" >>

\* if direct_log_path and st.button("View Direct Log"): ...
PressViewDirect ==
    /\ direct_log_path # <<>>
    /\ UNCHANGED <<gh_org, gh_token, import_jobs, all_jobs>>
    /\ Rerun(selected_job_idx, log_job_idx, gh_token_resume)
    /\ \E o \in MonitorOutcomes(LogPath) :
         MonitorRun(ViewDirectButton,
             << MonitorRequest("GET", LogPath, GetAuthHeaders(FALSE), DirectLogParams,
                               <<>>, o) >>,
             DirectLogReport(o),
             DetailsIfAnswered(o, "GET", LogPath, GetAuthHeaders(FALSE), DirectLogParams,
                               <<>>))

\* ------------------------------------------------- the monitor's behaviours
\* the dashboard and the REPL not started
CleanupIdle ==
    /\ github_org_filter = <<>>
    /\ gh_recovery_dry_run = TRUE
    /\ df_data = <<>>
    /\ job_list = DefaultJobList
    /\ cleanup_logs = <<>>
    /\ auth_type = "JWT Token"
    /\ jwt_token = <<>>
    /\ api_key = <<>>
    /\ username = <<>>
    /\ password = <<>>
    /\ workspace_input = DefaultWorkspaces
    /\ directory_input = DefaultDirectories
    /\ slug_patterns_input = DefaultSlugPatterns
    /\ confirmation = <<>>
    /\ pressed = "none"
    /\ shown = <<>>
    /\ calls = <<>>
    /\ direct = <<>>
    /\ nCalls = 0

MonitorStart == CleanupIdle /\ ReplIdle /\ MonitorInit

MonitorNext ==
    \/ \E v \in AuthMethods : SetAuthMethod(v)
    \/ \E v \in AuthTokenSamples : SetAuthToken(v)
    \/ \E v \in DirectPathSamples : SetDirectLogPath(v)
    \/ \E i \in 1..Len(ListedJobs) : SetSelectedJob(i)
    \/ \E i \in 1..Len(ListedJobs) : SetLogJob(i)
    \/ \E v \in GhTokenSamples : SetGhTokenResume(v)
    \/ \E org \in OrgSamples, tok \in GhTokenSamples : SubmitImport(org, tok)
    \/ PressRefresh
    \/ PressMonitorTestAuth
    \/ PressResume
    \/ PressCheckStatus
    \/ PressViewLogs
    \/ PressViewDirect

MonitorSpec == MonitorStart /\ [][MonitorNext]_vars

\* ===================================================== the inspection REPL
\* A text is the sequence of its characters.  Each action is one step of
\* the process: from reading one line (or an end of input, or an interrupt)
\* at a prompt up to the next prompt or the exit.
DEFAULT_LANCEDB_PATH == << "/app/server/storage/lancedb" >>

PathInputs == { <<>>, << "/", "d" >> }

YesNoInputs == { << "y" >>, << "Y" >>, << "n" >>, <<>> }

TableNameInputs == { << "t" >>, << "q" >>, << "Q" >>, << "x" >> }

ActionInputs ==
    { << "s" >>, << "a" >>, << "f" >>, << "F" >>, << "q" >>, << "Q" >>, << "x" >> }

FilterInputs == { <<>>, << "I", "d", ">", "1" >> }

\* the table lists a database may hold
TableLists == { <<>>, << << "t" >>, << "q" >> >> }

\* str.lower() on the letters the inputs use
LowerChar(c) ==
    CASE c = "Y" -> "y"
      [] c = "Q" -> "q"
      [] c = "F" -> "f"
      [] c = "I" -> "i"
      [] OTHER -> c

Lower(s) == [ i \in 1..Len(s) |-> LowerChar(s[i]) ]

\* the subsequences of a list: the tables whose open_table and count_rows
\* both succeeded during the enumeration
RECURSIVE SubSeqs(_)
SubSeqs(s) ==
    IF s = <<>> THEN { <<>> }
    ELSE LET rest == SubSeqs(Tail(s))
         IN  rest \cup { << Head(s) >> \o r : r \in rest }

\* name in table_info
InTableInfo(name, info) == \E i \in 1..Len(info) : info[i] = name

\* explore_db up to its first prompt, for a path: `returned` holds the value
\* it returned at once (<<>> while it waits at the "Inspect a specific
\* table?" prompt).  Whether the directory exists, whether connecting or
\* listing raises, what the database holds and which tables can be counted
\* is the environment's choice
ExploreOutcomes(path) ==
    { [ returned |-> << FALSE >>, names |-> <<>>, info |-> <<>>, enumerations |-> 0,
        out |-> "Error: LanceDB path not found, is not a directory, or is invalid" ] }
    \cup
    ( IF path = <<>> THEN {}
      ELSE { [ returned |-> << FALSE >>, names |-> <<>>, info |-> <<>>, enumerations |-> e,
               out |-> "Error connecting to or exploring LanceDB" ] : e \in {0, 1} }
           \cup
           { [ returned |-> << TRUE >>, names |-> <<>>, info |-> <<>>, enumerations |-> 1,
               out |-> "No tables found in LanceDB database" ] }
           \cup
           UNION { { [ returned |-> <<>>, names |-> names, info |-> info,
                       enumerations |-> 1, out |-> "Found tables" ] :
                     info \in SubSeqs(names) } :
                   names \in TableLists \ { <<>> } } )

\* the exit status of a process an uncaught KeyboardInterrupt ends: 1, or
\* 130 where the interpreter re-raises the signal
UncaughtInterruptStatus == {1, 130}

\* the five variables every step writes
ReplStep(pc, code, out, engine, input) ==
    /\ r_pc' = pc
    /\ r_exit' = code
    /\ r_out' = out
    /\ r_engine' = engine
    /\ r_input' = input
    /\ UNCHANGED r_argv
    /\ UNCHANGED cleanupVars
    /\ UNCHANGED monitorVars

Line(text) == [ kind |-> "line", text |-> text ]
EndOfInput == [ kind |-> "eof", text |-> <<>> ]
Interrupt == [ kind |-> "interrupt", text |-> <<>> ]
NoInput == [ kind |-> "none", text |-> <<>> ]

\* (a variant in which a failed exploration of a command-line path exits 0)
AfterExploreExitZero(result, out, input) ==
    IF result THEN ReplStep("exited", 0, "LanceDB exploration finished.", r_engine, input)
    ELSE IF r_argv THEN ReplStep("exited", 0, out, r_engine, input)
    ELSE ReplStep("retry_prompt", -1, out, r_engine, input)

\* explore_db returned `result` to the main block
AfterExplore(result, out, input) ==
    IF result THEN ReplStep("exited", 0, "LanceDB exploration finished.", r_engine, input)
    ELSE IF r_argv THEN ReplStep("exited", 1, out, r_engine, input)
    ELSE ReplStep("retry_prompt", -1, out, r_engine, input)

\* the main block calls explore_db(path)
Explore(path, input) ==
    /\ lancedb_uri' = << path >>
    /\ table_name' = <<>>
    /\ \E x \in ExploreOutcomes(path) :
         /\ table_names' = x.names
         /\ table_info' = x.info
         /\ r_enumerations' = x.enumerations
         /\ IF x.returned # <<>>
            THEN AfterExplore(x.returned[1], x.out, input)
            ELSE ReplStep("inspect_choice", -1, x.out, r_engine, input)

\* python explore_lancedb.py <path>
StartWithArgument(path) ==
    /\ r_pc = "start"
    /\ r_argv
    /\ Explore(path, NoInput)

\* python explore_lancedb.py
StartInteractive ==
    /\ r_pc = "start"
    /\ ~r_argv
    /\ ReplStep("path_prompt", -1, "none", r_engine, NoInput)
    /\ UNCHANGED <<lancedb_uri, table_names, table_info, r_enumerations, table_name>>

\* input("Enter LanceDB path (leave blank for default ...): ")
EnterPath(user_input) ==
    /\ r_pc = "path_prompt"
    /\ Explore(IF user_input = <<>> THEN DEFAULT_LANCEDB_PATH ELSE user_input,
               Line(user_input))

\* (a variant that compares the answer as typed)
WantsRetryAsTyped(retry) == retry = << "y" >>

\* retry = input(...).lower(); retry == 'y'
WantsRetry(retry) == Lower(retry) = << "y" >>

\* input("Path invalid or exploration failed. Try again? (y/N): ")
AnswerRetry(retry) ==
    /\ r_pc = "retry_prompt"
    /\ IF WantsRetry(retry)
       THEN ReplStep("path_prompt", -1, "none", r_engine, Line(retry))
       ELSE ReplStep("exited", 1, "Exiting.", r_engine, Line(retry))
    /\ UNCHANGED <<lancedb_uri, table_names, table_info, r_enumerations, table_name>>

\* input("Inspect a specific table? (y/N): ")
AnswerInspectChoice(inspect_choice) ==
    /\ r_pc = "inspect_choice"
    /\ IF Lower(inspect_choice) # << "y" >>
       THEN AfterExplore(TRUE, "none", Line(inspect_choice))
       ELSE ReplStep("table_name_prompt", -1, "none", r_engine, Line(inspect_choice))
    /\ UNCHANGED <<lancedb_uri, table_names, table_info, r_enumerations, table_name>>

\* (a variant that accepts every listed name)
CanInspectListed(name) == InTableInfo(name, table_names)

\* table_to_inspect in table_info
CanInspect(name) == InTableInfo(name, table_info)

\* input("Enter table name to inspect (available: ...) or q to quit: ");
\* inspect_table starts with db.open_table, which may raise
EnterTableName(table_to_inspect) ==
    /\ r_pc = "table_name_prompt"
    /\ UNCHANGED <<lancedb_uri, table_names, table_info, r_enumerations>>
    /\ IF Lower(table_to_inspect) = << "q" >>
       THEN /\ AfterExplore(TRUE, "none", Line(table_to_inspect))
            /\ UNCHANGED table_name
       ELSE IF CanInspect(table_to_inspect)
       THEN \/ /\ ReplStep("action_prompt", -1, "Inspecting table", r_engine,
                           Line(table_to_inspect))
               /\ table_name' = table_to_inspect
            \/ /\ ReplStep("inspect_choice", -1, "Error opening or inspecting table",
                           r_engine, Line(table_to_inspect))
               /\ table_name' = <<>>
       ELSE /\ ReplStep("inspect_choice", -1, "Table not found", r_engine,
                        Line(table_to_inspect))
            /\ UNCHANGED table_name

NoQuery == [ op |-> "none", arg |-> <<>> ]

\* (a variant in which a failed query ends the inspection of the table)
QueryErrorLeaves == "inspect_choice"

\* where the loop of inspect_table goes on after the inner except clause
QueryErrorResumes == "action_prompt"

\* the argument of table.search().where(...)
WhereArgument(filter_sql) == filter_sql

\* action = input("Table '...': Enter action [...]: ").lower()
EnterAction(action) ==
    /\ r_pc = "action_prompt"
    /\ UNCHANGED <<lancedb_uri, table_names, table_info, r_enumerations>>
    /\ IF Lower(action) = << "s" >>
       THEN \/ /\ ReplStep("action_prompt", -1, "Schema",
                           [ op |-> "schema", arg |-> <<>> ], Line(action))
               /\ UNCHANGED table_name
            \/ /\ ReplStep("inspect_choice", -1, "Error opening or inspecting table",
                           [ op |-> "schema", arg |-> <<>> ], Line(action))
               /\ table_name' = <<>>
       ELSE IF Lower(action) = << "a" >>
       THEN /\ UNCHANGED table_name
            /\ \/ ReplStep("action_prompt", -1, "rows",
                           [ op |-> "limit", arg |-> <<>> ], Line(action))
               \/ ReplStep(QueryErrorResumes, -1, "Error fetching rows",
                           [ op |-> "limit", arg |-> <<>> ], Line(action))
       ELSE IF Lower(action) = << "f" >>
       THEN /\ UNCHANGED table_name
            /\ ReplStep("filter_prompt", -1, "none", NoQuery, Line(action))
       ELSE IF Lower(action) = << "q" >>
       THEN /\ table_name' = <<>>
            /\ ReplStep("inspect_choice", -1, "Finished inspecting table", NoQuery,
                        Line(action))
       ELSE /\ UNCHANGED table_name
            /\ ReplStep("action_prompt", -1, "Invalid action.", NoQuery, Line(action))

\* filter_sql = input("  Enter SQL WHERE clause (...): ")
EnterFilter(filter_sql) ==
    /\ r_pc = "filter_prompt"
    /\ UNCHANGED <<lancedb_uri, table_names, table_info, r_enumerations, table_name>>
    /\ IF filter_sql = <<>>
       THEN ReplStep("action_prompt", -1, "Filter cannot be empty.", NoQuery,
                     Line(filter_sql))
       ELSE \/ ReplStep("action_prompt", -1, "rows",
                        [ op |-> "where", arg |-> WhereArgument(filter_sql) ],
                        Line(filter_sql))
            \/ ReplStep(QueryErrorResumes, -1, "Error applying filter",
                        [ op |-> "where", arg |-> WhereArgument(filter_sql) ],
                        Line(filter_sql))

Prompts ==
    { "path_prompt", "retry_prompt", "inspect_choice", "table_name_prompt",
      "action_prompt", "filter_prompt" }

\* Ctrl+D at a prompt: input raises EOFError, an Exception.  The main loop
\* catches it and exits 0; inside explore_db the except clause of line 103
\* takes it for a failed exploration; inside inspect_table the except
\* clause of line 58 takes it for a failed inspection
ReadEndOfInput ==
    /\ r_pc \in Prompts
    /\ UNCHANGED <<lancedb_uri, table_names, table_info, r_enumerations>>
    /\ IF r_pc \in { "path_prompt", "retry_prompt" }
       THEN /\ ReplStep("exited", 0, "Exiting.", r_engine, EndOfInput)
            /\ UNCHANGED table_name
       ELSE IF r_pc \in { "inspect_choice", "table_name_prompt" }
       THEN /\ AfterExplore(FALSE, "Error connecting to or exploring LanceDB", EndOfInput)
            /\ UNCHANGED table_name
       ELSE /\ ReplStep("inspect_choice", -1, "Error opening or inspecting table",
                        r_engine, EndOfInput)
            /\ table_name' = <<>>

\* Ctrl+C at a prompt: KeyboardInterrupt is no Exception, so only the main
\* loop of the interactive mode catches it; with a command-line path it
\* ends the process uncaught
ReadInterrupt ==
    /\ r_pc \in Prompts
    /\ UNCHANGED <<lancedb_uri, table_names, table_info, r_enumerations, table_name>>
    /\ IF r_argv
       THEN \E code \in UncaughtInterruptStatus :
              ReplStep("exited", code, "Traceback: KeyboardInterrupt", r_engine, Interrupt)
       ELSE ReplStep("exited", 0, "Exiting.", r_engine, Interrupt)

ReplStart == CleanupIdle /\ MonitorIdle /\ ReplInit

ReplNext ==
    \/ \E path \in PathInputs : StartWithArgument(path)
    \/ StartInteractive
    \/ \E user_input \in PathInputs : EnterPath(user_input)
    \/ \E retry \in YesNoInputs : AnswerRetry(retry)
    \/ \E inspect_choice \in YesNoInputs : AnswerInspectChoice(inspect_choice)
    \/ \E table_to_inspect \in TableNameInputs : EnterTableName(table_to_inspect)
    \/ \E action \in ActionInputs : EnterAction(action)
    \/ \E filter_sql \in FilterInputs : EnterFilter(filter_sql)
    \/ ReadEndOfInput
    \/ ReadInterrupt

ReplSpec == ReplStart /\ [][ReplNext]_vars

\* the log listing alone, for every job list the service may hold
FilterInit ==
    /\ MonitorIdle
    /\ ReplIdle
    /\ github_org_filter = <<>>
    /\ gh_recovery_dry_run = TRUE
    /\ df_data = <<>>
    /\ job_list \in JobLists(MaxJobs)
    /\ cleanup_logs = <<>>
    /\ auth_type = "No Auth"
    /\ jwt_token = <<>>
    /\ api_key = <<>>
    /\ username = <<>>
    /\ password = <<>>
    /\ workspace_input = DefaultWorkspaces
    /\ directory_input = DefaultDirectories
    /\ slug_patterns_input = DefaultSlugPatterns
    /\ confirmation = <<>>
    /\ pressed = "none"
    /\ shown = <<>>
    /\ calls = <<>>
    /\ direct = <<>>
    /\ nCalls = 0

FilterNext == PressListCleanupLogs

FilterSpec == FilterInit /\ [][FilterNext]_vars

\* ================================================================ claims
\* a text holds no identifier: nothing but spaces and newlines
AllBlank(text) == \A i \in 1..Len(text) : IsSpace(text[i])

AllListsBlank ==
    AllBlank(workspace_input) /\ AllBlank(directory_input) /\ AllBlank(slug_patterns_input)

\* a credential the active auth type requires is missing
MissingCredential ==
    \/ auth_type = "JWT Token" /\ Len(jwt_token) = 0
    \/ auth_type = "API Key" /\ Len(api_key) = 0
    \/ auth_type = "Basic Auth" /\ (Len(username) = 0 \/ Len(password) = 0)

MissingCredentialMsg ==
    CASE auth_type = "JWT Token" -> MsgJwt
      [] auth_type = "API Key" -> MsgApiKey
      [] auth_type = "Basic Auth" -> MsgBasic
      [] OTHER -> "never"

\* the latest run sent nothing over the network
NoNetwork == calls = <<>> /\ direct = <<>>

\* C1: a cleanup press with a confirmation phrase that is not exactly
\* CONFIRM_WORKSPACE_DELETION reports the confirmation mismatch and sends no
\* request, whatever the auth mode, the credentials and the lists are.
C1_ConfirmationMismatch ==
    (pressed = CleanButton /\ confirmation # <<"CONFIRM_WORKSPACE_DELETION">>)
        => (shown = << MsgConfirm >> /\ NoNetwork)

\* a press with the phrase followed by a space, under API Key auth with a key
\* and non-empty lists, was rejected
C1_Witness ==
    /\ pressed = CleanButton
    /\ confirmation = <<"CONFIRM_WORKSPACE_DELETION", " ">>
    /\ auth_type = "API Key" /\ api_key # <<>>
    /\ ~AllListsBlank
    /\ shown = << MsgConfirm >>
    /\ NoNetwork

\* C2: validation runs in the order phrase, credentials of the active auth
\* mode, non-empty selection; the first failing check is the one reported,
\* and a press that fails validation sends no request.
C2_ValidationOrder ==
    pressed = CleanButton =>
        /\ confirmation # ConfirmPhrase => shown = << MsgConfirm >>
        /\ (confirmation = ConfirmPhrase /\ MissingCredential)
              => shown = << MissingCredentialMsg >>
        /\ (confirmation = ConfirmPhrase /\ ~MissingCredential /\ AllListsBlank)
              => shown = << MsgEmpty >>
        /\ (confirmation = ConfirmPhrase /\ ~MissingCredential /\ ~AllListsBlank)
              => (shown # <<>> /\ shown[1] = "Will clean" /\ calls # <<>>)
        /\ (shown # <<>> /\ shown[1] \in {MsgConfirm, MsgJwt, MsgApiKey, MsgBasic, MsgEmpty})
              => NoNetwork

\* correct phrase, Basic Auth without password, all lists blank: the missing
\* credential is reported, not the empty selection
C2_Witness ==
    /\ pressed = CleanButton
    /\ confirmation = ConfirmPhrase
    /\ auth_type = "Basic Auth" /\ username # <<>> /\ password = <<>>
    /\ AllListsBlank
    /\ shown = << MsgBasic >>
    /\ NoNetwork

\* C3 as stated: with all three lists empty after trimming the press reports
\* the empty selection whether or not the phrase is valid.
C3_EmptySelectionRegardless ==
    (pressed = CleanButton /\ AllListsBlank) => shown = << MsgEmpty >>

\* C3 as amended: with all three lists empty after trimming, the press
\* reports the empty selection when the phrase is valid and the credentials
\* of the auth mode are present, and sends nothing; with an invalid phrase it
\* reports the confirmation mismatch instead.
C3_EmptySelectionAfterOtherChecks ==
    (pressed = CleanButton /\ AllListsBlank) =>
        /\ (confirmation = ConfirmPhrase /\ ~MissingCredential)
              => (shown = << MsgEmpty >> /\ NoNetwork)
        /\ confirmation # ConfirmPhrase => shown = << MsgConfirm >>

\* all lists blank (one of them a blank line, one spaces), phrase valid,
\* credentials present: the empty selection is reported
C3_Witness ==
    /\ pressed = CleanButton
    /\ AllListsBlank
    /\ workspace_input # <<>>
    /\ confirmation = ConfirmPhrase
    /\ auth_type = "JWT Token" /\ jwt_token # <<>>
    /\ shown = << MsgEmpty >>

\* the inputs of a press that passes validation
ValidCleanInputs ==
    confirmation = ConfirmPhrase /\ ~MissingCredential /\ ~AllListsBlank

\* C4: every cleanup press that passes validation makes exactly one
\* make_request call, a POST to /ext/github/cleanup-workspaces whose body
\* carries workspaces, directories, slugPatterns and confirmPhrase; a press
\* repeating the previous submission dispatches again.
C4_OneDispatchPerValidPress ==
    [][ (pressed' = CleanButton /\ ValidCleanInputs') =>
          /\ nCalls' = nCalls + 1
          /\ Len(calls') = 1
          /\ calls'[1].endpoint = "/ext/github/cleanup-workspaces"
          /\ calls'[1].method = "POST"
          /\ calls'[1].json_data =
                << [ workspaces |-> ParseLines(workspace_input'),
                     directories |-> ParseLines(directory_input'),
                     slugPatterns |-> ParseLines(slug_patterns_input'),
                     confirmPhrase |-> ConfirmPhrase ] >>
          /\ calls'[1].sent[1].method = "POST"
          /\ calls'[1].sent[1].endpoint = "/ext/github/cleanup-workspaces"
          /\ calls'[1].sent[1].json = calls'[1].json_data
      ]_vars

\* the second of two dispatching presses
C4_Witness ==
    /\ pressed = CleanButton
    /\ ValidCleanInputs
    /\ nCalls = 2
    /\ Len(calls) = 1
    /\ calls[1].endpoint = CleanupEndpoint

\* the non-blank lines of a text, each trimmed, in the order of the text:
\* every line of the raw text is trimmed first and the empty ones are then
\* left out
IsNonEmpty(w) == Len(w) > 0

TrimmedNonBlankLines(text) == SelectSeq(StripEach(SplitLines(text)), IsNonEmpty)

\* xs is a subsequence of ys
RECURSIVE IsSubsequence(_, _)
IsSubsequence(xs, ys) ==
    IF xs = <<>> THEN TRUE
    ELSE IF ys = <<>> THEN FALSE
    ELSE IF Head(xs) = Head(ys) THEN IsSubsequence(Tail(xs), Tail(ys))
    ELSE IsSubsequence(xs, Tail(ys))

\* C5: an identifier field is parsed into its lines, each trimmed, the lines
\* that are empty after trimming left out, in input order and with repeated
\* entries kept; the list sent in the request is that list.
C5_ParsedLines ==
    LET parsed == ParseLines(workspace_input)
        trimmed == StripEach(SplitLines(workspace_input))
    IN  /\ parsed = TrimmedNonBlankLines(workspace_input)
        /\ IsSubsequence(parsed, trimmed)
        /\ Len(parsed) = Cardinality({ i \in 1..Len(trimmed) : trimmed[i] # <<>> })
        /\ (pressed = CleanButton /\ calls # <<>>)
              => calls[1].json_data[1].workspaces = TrimmedNonBlankLines(workspace_input)

\* "a", a blank line, "a" again: both entries are sent, in order
C5_Witness ==
    /\ pressed = CleanButton
    /\ workspace_input = <<"a", "\n", "\n", "a">>
    /\ calls # <<>>
    /\ calls[1].json_data[1].workspaces = << <<"a">>, <<"a">> >>

\* the header shapes the fallback tries, in order, for a key
FallbackShapes(key) ==
    << [ h \in {"Content-Type", "Authorization"} |->
            IF h = "Authorization" THEN key ELSE <<"application/json">> ],
       [ h \in {"Content-Type", "x-api-key"} |->
            IF h = "x-api-key" THEN key ELSE <<"application/json">> ],
       [ h \in {"Content-Type", "X-API-KEY"} |->
            IF h = "X-API-KEY" THEN key ELSE <<"application/json">> ] >>

Is401(p) == ~p.resp.raised /\ p.resp.status_code = 401

\* the fallback sequence of a call c whose primary request got a 401
FallbackSequenceOk(c) ==
    /\ Len(c.sent) >= 2
    /\ Len(c.sent) <= 4
    /\ \A j \in 2..Len(c.sent) :
         /\ c.sent[j].headers = FallbackShapes(api_key)[j - 1]
         /\ c.sent[j].method = c.sent[1].method
         /\ c.sent[j].endpoint = c.sent[1].endpoint
         /\ c.sent[j].json = c.sent[1].json
         /\ c.sent[j].auth = c.sent[1].auth
         /\ j < Len(c.sent) => Is401(c.sent[j])
         /\ (~c.sent[j].resp.raised /\ c.sent[j].resp.status_code # 401)
               => (j = Len(c.sent) /\ c.returned = << c.sent[j].resp >>)
    /\ Is401(c.sent[Len(c.sent)]) => Len(c.sent) = 4

\* C6 as stated: under API Key auth a 401 on the primary request is followed
\* by the alternates raw Authorization, x-api-key, X-API-KEY in that order,
\* ending at the first alternate whose status is not 401, whose response is
\* the result.
C6_FallbackOrderAnyKey ==
    \A n \in 1..Len(calls) :
        (auth_type = "API Key" /\ Is401(calls[n].sent[1]))
            => FallbackSequenceOk(calls[n])

\* C6 as amended: the same, under API Key auth with a non-empty key.
C6_FallbackOrder ==
    \A n \in 1..Len(calls) :
        (auth_type = "API Key" /\ api_key # <<>> /\ Is401(calls[n].sent[1]))
            => FallbackSequenceOk(calls[n])

\* primary 401, raw Authorization 401, x-api-key answers 200: three requests,
\* the third response returned
C6_Witness ==
    /\ calls # <<>>
    /\ auth_type = "API Key" /\ api_key = <<"k">>
    /\ Len(calls[1].sent) = 3
    /\ Is401(calls[1].sent[1]) /\ Is401(calls[1].sent[2])
    /\ calls[1].sent[3].resp.status_code = 200
    /\ calls[1].sent[3].headers = ContentType @@ ("x-api-key" :> <<"k">>)
    /\ calls[1].returned = << calls[1].sent[3].resp >>

\* the primary and the three alternates of call c all answered 401
AllFour401(c) == Len(c.sent) = 4 /\ \A j \in 1..4 : Is401(c.sent[j])

\* C7 as stated: when the primary and the three alternates all return 401,
\* make_request returns the response of the fourth request.
C7_ReturnsLastResponse ==
    \A n \in 1..Len(calls) :
        (auth_type = "API Key" /\ AllFour401(calls[n]))
            => calls[n].returned = << calls[n].sent[4].resp >>

\* C7 as amended: in that case make_request returns the response of the
\* primary request, a 401.
C7_ReturnsPrimaryResponse ==
    \A n \in 1..Len(calls) :
        (auth_type = "API Key" /\ AllFour401(calls[n]))
            => /\ calls[n].returned = << calls[n].sent[1].resp >>
               /\ calls[n].returned[1].attempt = 1
               /\ calls[n].returned[1].status_code = 401

\* a cleanup call whose four requests were all answered 401
C7_Witness ==
    /\ calls # <<>>
    /\ auth_type = "API Key"
    /\ AllFour401(calls[1])
    /\ calls[1].method = "POST"
    /\ calls[1].returned # <<>>

\* C8: a make_request call sends at most 4 requests, and more than 1 only
\* when the primary answered 401 under API Key auth.
C8_AtMostFour ==
    \A n \in 1..Len(calls) :
        /\ Len(calls[n].sent) >= 1
        /\ Len(calls[n].sent) <= 4
        /\ Len(calls[n].sent) > 1
              => (Is401(calls[n].sent[1]) /\ auth_type = "API Key")

\* a call of four requests
C8_Witness ==
    /\ calls # <<>>
    /\ Len(calls[1].sent) = 4
    /\ auth_type = "API Key"
    /\ Is401(calls[1].sent[1])

\* C9 as stated: a GET call, and a call under JWT Token, Basic Auth or No
\* Auth, sends exactly 1 request whatever the status.
C9_GetAndOtherAuthSendOne ==
    \A n \in 1..Len(calls) :
        (calls[n].method = "GET" \/ auth_type \in {"JWT Token", "Basic Auth", "No Auth"})
            => Len(calls[n].sent) = 1

\* C9 as amended: a call under JWT Token, Basic Auth or No Auth sends exactly
\* 1 request whatever its method and the status; a GET under API Key auth
\* sends exactly 1 unless its primary answered 401, and then goes through
\* the same fallback as a POST.
C9_OtherAuthSendOne ==
    \A n \in 1..Len(calls) :
        /\ auth_type \in {"JWT Token", "Basic Auth", "No Auth"}
              => Len(calls[n].sent) = 1
        /\ (calls[n].method = "GET" /\ ~Is401(calls[n].sent[1]))
              => Len(calls[n].sent) = 1
        /\ (calls[n].method = "GET" /\ auth_type = "API Key" /\ api_key # <<>>
              /\ Is401(calls[n].sent[1]))
              => (Len(calls[n].sent) > 1 /\ \A j \in 1..Len(calls[n].sent) :
                                               calls[n].sent[j].method = "GET")

\* a GET under JWT Token auth answered 401: one request
C9_Witness ==
    /\ calls # <<>>
    /\ auth_type = "JWT Token" /\ jwt_token # <<>>
    /\ calls[1].method = "GET"
    /\ Is401(calls[1].sent[1])
    /\ Len(calls[1].sent) = 1

\* C10: a request that raises, primary or alternate, is the last request of
\* its make_request call, and the call returns None, also when an earlier
\* request of the call had been answered.
C10_TransportFailureEndsCall ==
    \A n \in 1..Len(calls) :
        \A j \in 1..Len(calls[n].sent) :
            calls[n].sent[j].resp.raised
                => (j = Len(calls[n].sent) /\ calls[n].returned = <<>>)

\* the second alternate raised after two 401 answers
C10_Witness ==
    /\ calls # <<>>
    /\ Len(calls[1].sent) = 3
    /\ Is401(calls[1].sent[1])
    /\ calls[1].sent[3].resp.raised
    /\ calls[1].returned = <<>>

\* ---------------------------------------------------------------- C11, C12
\* C11: every request to the log endpoint carries as logFile only the last
\* path segment of the log file value the client holds (the selected job's
\* logFile for View Logs, the typed path for View Direct Log).
C11_LogFetchSendsBasename ==
    \A i \in 1..Len(m_sent) :
        m_sent[i].path = LogPath =>
            /\ m_pressed = ViewLogsButton =>
                 m_sent[i].params.logFile = Basename(Jobs(all_jobs)[log_job_idx].logFile)
            /\ m_pressed = ViewDirectButton =>
                 m_sent[i].params.logFile = Basename(direct_log_path)

\* the cleanup report of the latest run offers the "Check Log File" button:
\* the cleanup request was answered 200 with a logFile
CheckLogOffered ==
    /\ pressed = CleanButton
    /\ calls # <<>>
    /\ calls[1].returned # <<>>
    /\ calls[1].returned[1].status_code = 200
    /\ calls[1].returned[1].body = "json+logFile"

\* C12: after a cleanup response of 200 with a logFile, a press of "Check
\* Log File" issues a GET to the log endpoint (keyed by that logFile).
C12_CheckLogFileFetches ==
    [][ (CheckLogOffered /\ pressed' = CheckLogButton)
          => \E i \in 1..Len(calls') :
                /\ calls'[i].method = CheckLogFileRequest(CleanupLogFile).method
                /\ calls'[i].endpoint = CheckLogFileRequest(CleanupLogFile).endpoint ]_vars

\* -------------------------------------------------------------------- C15
\* the Authorization value the JWT rule prescribes for a stored token
JwtHeaderValue(token) ==
    IF StartsWith(token, <<"Bearer", " ">>) THEN token ELSE <<"Bearer", " ">> \o token

\* C15: under JWT Token auth the Authorization header of a request of the
\* import monitor is the stored token itself when it starts with "Bearer ",
\* and otherwise "Bearer " followed by the stored token.
C15_JwtHeaderVerbatimOrPrefixed ==
    (auth_method = "JWT Token" /\ auth_token # <<>>) =>
        \A i \in 1..Len(m_sent) :
            /\ "Authorization" \in DOMAIN m_sent[i].headers
            /\ m_sent[i].headers["Authorization"] = JwtHeaderValue(auth_token)

\* -------------------------------------------------------------------- C17
MonitorErrors ==
    { "error: Request failed", "error: Error", "error: API Error",
      "error: Authentication failed", "error: Connection test failed",
      "error: All fields are required!" }

\* a non-200 status, or a 200 whose JSON body has success = false
ProtocolError(o) == ~o.raised /\ (o.status_code # 200 \/ o.body = "fail")

\* C17: every protocol error answered to import start, job listing,
\* resume/status, log fetch or direct log view is reported as an error.
C17_ProtocolErrorsReported ==
    m_pressed # MonitorTestAuthButton =>
        \A i \in 1..Len(m_sent) :
            ProtocolError(m_sent[i].resp) =>
                \E j \in 1..Len(m_shown) : m_shown[j] \in MonitorErrors

\* -------------------------------------------------------------------- C16
\* the requests after the primary one carry the raw key as Authorization,
\* x-api-key and X-API-KEY
FallbackCandidatesRaw(c) ==
    \A j \in 2..Len(c.sent) : c.sent[j].headers = FallbackShapes(api_key)[j - 1]

\* C16 as stated: under API Key auth with any non-empty key the primary
\* request's Authorization is "Bearer " followed by the key, and the
\* fallback candidates carry the raw key as Authorization, x-api-key and
\* X-API-KEY.
C16_ApiKeyHeadersAnyKey ==
    (auth_type = "API Key" /\ api_key # <<>>) =>
        \A n \in 1..Len(calls) :
            /\ calls[n].sent[1].headers["Authorization"] = <<"Bearer", " ">> \o api_key
            /\ FallbackCandidatesRaw(calls[n])

\* C16 as amended: the primary Authorization is "Bearer " followed by the
\* key when the key does not contain "Bearer", and the key as typed when it
\* does; the fallback candidates carry the raw key in both cases.
C16_ApiKeyHeaders ==
    (auth_type = "API Key" /\ api_key # <<>>) =>
        \A n \in 1..Len(calls) :
            /\ DOMAIN calls[n].sent[1].headers = {"Content-Type", "Authorization"}
            /\ calls[n].sent[1].headers["Authorization"] =
                 IF ContainsBearer(api_key) THEN api_key
                 ELSE <<"Bearer", " ">> \o api_key
            /\ FallbackCandidatesRaw(calls[n])

\* a key without "Bearer": the prefixed primary and all three candidates sent
C16_Witness ==
    /\ auth_type = "API Key"
    /\ api_key = <<"k">>
    /\ calls # <<>>
    /\ Len(calls[1].sent) = 4
    /\ calls[1].sent[1].headers["Authorization"] = <<"Bearer", " ", "k">>
    /\ calls[1].sent[2].headers["Authorization"] = <<"k">>

\* -------------------------------------------------------------------- C13
\* C13: the recovery request carries orgNameFilter = null exactly when the
\* filter input is empty and the input's value otherwise, never the empty
\* string, and dryRun equal to the dry-run checkbox, which starts checked.
C13_RecoveryPayload ==
    /\ gh_recovery_dry_run = TRUE
    /\ [] ( pressed = RecoverButton =>
              \A n \in 1..Len(calls) : \A j \in 1..Len(calls[n].sent) :
                 LET payload == calls[n].sent[j].json[1]
                 IN  /\ (github_org_filter = <<>>) <=> (payload.orgNameFilter = <<>>)
                     /\ github_org_filter # <<>>
                          => payload.orgNameFilter = << github_org_filter >>
                     /\ payload.orgNameFilter # << <<>> >>
                     /\ payload.dryRun = gh_recovery_dry_run )

\* a recovery request sent with the filter left empty and dry run unchecked
C13_Witness ==
    /\ pressed = RecoverButton
    /\ github_org_filter = <<>>
    /\ ~gh_recovery_dry_run
    /\ calls # <<>>
    /\ calls[1].sent[1].json = << [ orgNameFilter |-> <<>>, dryRun |-> FALSE ] >>

\* -------------------------------------------------------------------- C14
\* C14: with the dry-run checkbox checked every row of the detail table
\* shows the skipped (dry run) marker in its Fixed column.
C14_DryRunRowsSkipped ==
    gh_recovery_dry_run =>
        \A i \in 1..Len(df_data) : df_data[i].Fixed = "skip (dry run)"

\* -------------------------------------------------------------------- C18
\* explore_db returned False in the step
ExplorationFailed ==
    r_out' \in { "Error: LanceDB path not found, is not a directory, or is invalid",
                 "Error connecting to or exploring LanceDB" }

\* the parts of C18 that do not depend on the retry answer: a failed
\* exploration ends a command-line run with a non-zero exit and leads an
\* interactive run to the retry question; a returned exploration that did
\* not fail ends the process with exit 0
PathSelectionSteps ==
    /\ (ExplorationFailed /\ r_argv) => (r_pc' = "exited" /\ r_exit' # 0)
    /\ (ExplorationFailed /\ ~r_argv) => r_pc' = "retry_prompt"
    /\ r_out' \in { "LanceDB exploration finished." }
         => (r_pc' = "exited" /\ r_exit' = 0)

\* C18 as stated: ...; at the retry question the answer y returns to the
\* path prompt and any other answer terminates with a non-zero exit.
C18_RetryOnlyOnY ==
    [][ /\ PathSelectionSteps
        /\ (r_pc = "retry_prompt" /\ r_input'.kind = "line") =>
             IF r_input'.text = << "y" >>
             THEN r_pc' = "path_prompt"
             ELSE r_pc' = "exited" /\ r_exit' # 0 ]_vars

\* C18 as amended: the answer is compared after lower-casing, so y and Y
\* return to the path prompt and any other answer terminates with a
\* non-zero exit.
C18_PathSelection ==
    [][ /\ PathSelectionSteps
        /\ (r_pc = "retry_prompt" /\ r_input'.kind = "line") =>
             IF r_input'.text \in { << "y" >>, << "Y" >> }
             THEN r_pc' = "path_prompt" /\ r_exit' = -1
             ELSE r_pc' = "exited" /\ r_exit' # 0 ]_vars

\* back at the path prompt after answering Y to the retry question
C18_Witness ==
    /\ ~r_argv
    /\ r_pc = "path_prompt"
    /\ r_input = Line(<< "Y" >>)
    /\ lancedb_uri # <<>>

\* -------------------------------------------------------------------- C19
Browsing == { "inspect_choice", "table_name_prompt" }

Inspecting == { "action_prompt", "filter_prompt" }

\* the step read a table name at the table-name prompt
NameEntered == r_pc = "table_name_prompt" /\ r_input'.kind = "line"

\* inspect_table was called for the entered name
NameChosen ==
    \/ r_pc' = "action_prompt" /\ table_name' = r_input'.text
    \/ r_out' = "Error opening or inspecting table"

NameRejected == r_out' = "Table not found" /\ r_pc' = "inspect_choice"

\* C19 as stated: names and counts are enumerated once per exploration; a
\* table is inspected only for an enumerated name; any other entered name
\* than q is rejected with a not-found message, staying in BrowsingTables;
\* every enumerated name can be chosen.
C19_EveryListedNameChoosable ==
    [][ /\ r_pc' \in Browsing \cup Inspecting => r_enumerations' = 1
        /\ (NameEntered /\ r_pc' = "action_prompt")
              => InTableInfo(r_input'.text, table_names)
        /\ (NameEntered /\ ~InTableInfo(r_input'.text, table_names)
              /\ r_input'.text # << "q" >>) => NameRejected
        /\ (NameEntered /\ InTableInfo(r_input'.text, table_names)) => NameChosen ]_vars

\* C19 as amended: the names that can be chosen are those whose row count
\* was read during the enumeration, except q and Q, which leave
\* BrowsingTables; every other entered name is rejected.
C19_CountedNamesChoosable ==
    [][ /\ r_pc' \in Browsing \cup Inspecting => r_enumerations' = 1
        /\ (NameEntered /\ r_pc' = "action_prompt")
              => /\ InTableInfo(r_input'.text, table_names)
                 /\ InTableInfo(r_input'.text, table_info)
        /\ (NameEntered /\ ~InTableInfo(r_input'.text, table_info)
              /\ r_input'.text \notin { << "q" >>, << "Q" >> }) => NameRejected
        /\ (NameEntered /\ InTableInfo(r_input'.text, table_info)
              /\ r_input'.text \notin { << "q" >>, << "Q" >> }) => NameChosen
        /\ (NameEntered /\ r_input'.text \in { << "q" >>, << "Q" >> })
              => r_pc' = "exited" ]_vars

\* table t chosen while table q, listed too, could not be counted
C19_Witness ==
    /\ r_pc = "action_prompt"
    /\ table_name = << "t" >>
    /\ r_input = Line(<< "t" >>)
    /\ table_names = << << "t" >>, << "q" >> >>
    /\ table_info = << << "t" >> >>
    /\ r_enumerations = 1

\* -------------------------------------------------------------------- C20
QueryErrors == { "Error fetching rows", "Error applying filter" }

\* C20: an engine error while listing or filtering rows is displayed and
\* the REPL stays at the action menu of the same table; the filter text is
\* handed to the engine as typed; no line entered while inspecting a table
\* ends the process.
C20_QueryErrorsRecoverable ==
    [][ /\ (r_pc \in Inspecting /\ r_out' \in QueryErrors)
              => (r_pc' = "action_prompt" /\ table_name' = table_name
                  /\ table_name' # <<>>)
        /\ (r_pc = "filter_prompt" /\ r_input'.kind = "line" /\ r_input'.text # <<>>)
              => r_engine' = [ op |-> "where", arg |-> r_input'.text ]
        /\ (r_pc \in Inspecting /\ r_input'.kind = "line")
              => (r_pc' # "exited" /\ r_exit' = -1) ]_vars

\* a filter with an upper-case letter was refused by the engine; the action
\* menu of table t is offered again
C20_Witness ==
    /\ r_pc = "action_prompt"
    /\ table_name = << "t" >>
    /\ r_out = "Error applying filter"
    /\ r_engine = [ op |-> "where", arg |-> << "I", "d", ">", "1" >> ]
    /\ r_input = Line(<< "I", "d", ">", "1" >>)

\* -------------------------------------------------------------------- C21
\* C21: Ctrl+C or Ctrl+D at any prompt, in argument mode and in interactive
\* mode, ends the process at once with exit code 0.
C21_InterruptExitsZero ==
    [][ (r_pc \in Prompts /\ r_input'.kind \in { "eof", "interrupt" })
          => (r_pc' = "exited" /\ r_exit' = 0) ]_vars

\* -------------------------------------------------------------------- C22
\* the step ends the process
Terminates == r_pc # "exited" /\ r_pc' = "exited"

\* C22 as stated: the exit code is non-zero only when path selection fails
\* for a path given on the command line.
C22_NonZeroOnlyForArgumentPath ==
    [][ (Terminates /\ r_exit' # 0)
          => (r_argv /\ r_pc = "start" /\ ExplorationFailed) ]_vars

\* C22 as amended: the exit code is non-zero exactly when explore_db
\* returned False in argument mode, when the retry question of the
\* interactive mode got an answer other than y or Y, or when Ctrl+C arrived
\* in argument mode; every other termination has exit code 0.
C22_NonZeroExits ==
    [][ Terminates =>
          /\ r_exit' \in {0, 1, 130}
          /\ r_exit' # 0 <=>
               \/ r_argv /\ ExplorationFailed
               \/ r_pc = "retry_prompt" /\ r_input'.kind = "line"
               \/ r_argv /\ r_input'.kind = "interrupt" ]_vars

\* the interactive run ended with exit code 1 after the answer n to the
\* retry question
C22_Witness ==
    /\ ~r_argv
    /\ r_pc = "exited"
    /\ r_exit = 1
    /\ r_input = Line(<< "n" >>)

\* -------------------------------------------------------------------- C23
\* the latest run listed the jobs the service holds
JobsListed ==
    /\ pressed = ListLogsButton
    /\ calls # <<>>
    /\ Truthy(calls[1].returned)
    /\ calls[1].returned[1].status_code = 200
    /\ calls[1].returned[1].body = "jobs:mixed"

\* C23: the cleanup-log filter keeps the entries that contain
\* "workspace-cleanup"; applied to its own output it yields the same list,
\* and its output is a subsequence of the job list the jobs endpoint
\* returned.
C23_FilterIdempotent ==
    JobsListed =>
        /\ CleanupLogs(cleanup_logs) = cleanup_logs
        /\ IsSubsequence(cleanup_logs, job_list)
        /\ \A i \in 1..Len(cleanup_logs) : IsCleanupLog(cleanup_logs[i])
        /\ \A i \in 1..Len(job_list) :
             IsCleanupLog(job_list[i]) =>
                \E k \in 1..Len(cleanup_logs) : cleanup_logs[k] = job_list[i]

\* two different cleanup logs around another job were listed and kept in
\* their order
C23_Witness ==
    /\ JobsListed
    /\ Len(job_list) = 3
    /\ Len(cleanup_logs) = 2
    /\ cleanup_logs[1] # cleanup_logs[2]
    /\ ~IsCleanupLog(job_list[2])

\* -------------------------------------------------------------------- C24
\* the job selected in the Monitor Jobs tab
SelectedJob == Jobs(all_jobs)[selected_job_idx]

\* C24: a request to the status endpoint is sent only by Resume Jobs and
\* Check Status Without Resuming, only while a stored job list is shown and
\* the selected job is not completed and has failed repositories, and it
\* carries that job's progressFile; with resume = true it also carries the
\* non-empty GitHub token typed for the resume, with resume = false no
\* accessToken.  Every other request of the client is a GET or the POST
\* that starts a new import.
C24_ResumeRequests ==
    \A i \in 1..Len(m_sent) :
        IF m_sent[i].path = StatusPath
        THEN LET body == m_sent[i].json[1]
             IN  /\ m_sent[i].method = "POST"
                 /\ all_jobs # <<>>
                 /\ JobsShown(all_jobs)
                 /\ SelectedJob.status # "completed"
                 /\ SelectedJob.failed > 0
                 /\ body.progressFile = SelectedJob.progressFile
                 /\ IF body.resume
                    THEN /\ m_pressed = ResumeButton
                         /\ DOMAIN body = {"progressFile", "resume", "accessToken"}
                         /\ body.accessToken # <<>>
                         /\ body.accessToken = gh_token_resume
                    ELSE /\ m_pressed = CheckStatusButton
                         /\ DOMAIN body = {"progressFile", "resume"}
        ELSE /\ m_pressed \notin { ResumeButton, CheckStatusButton }
             /\ m_sent[i].method = "GET" \/ m_sent[i].path = ImportPath

\* the resume of the running job with failed repositories was requested
C24_Witness ==
    /\ m_pressed = ResumeButton
    /\ Len(m_sent) = 1
    /\ m_sent[1].path = StatusPath
    /\ m_sent[1].json = << [ progressFile |-> <<"p1">>, resume |-> TRUE,
                             accessToken |-> <<"g">> ] >>
    /\ SelectedJob = RunningJob

\* -------------------------------------------------------------------- C25
\* the run just made was a Refresh Jobs List answered 200 with success true
RefreshSucceeded ==
    /\ m_pressed = RefreshButton
    /\ Len(m_sent) = 1
    /\ m_sent[1].path = JobsPath
    /\ ~m_sent[1].resp.raised
    /\ m_sent[1].resp.status_code = 200
    /\ ResultSuccess(m_sent[1].resp)

\* C25: the cached job list changes only in a Refresh Jobs List run whose
\* response has status 200 and success true, which stores the jobs of that
\* response; a failed refresh and every other run leave the list unchanged.
C25_JobListOnlyReplacedByRefresh ==
    [][ /\ all_jobs' # all_jobs => RefreshSucceeded'
        /\ RefreshSucceeded' => all_jobs' = << ResultJobs(m_sent'[1].resp) >>
      ]_vars

\* a refresh that failed after an earlier one had stored the job list
C25_Witness ==
    /\ m_pressed = RefreshButton
    /\ Len(m_sent) = 1
    /\ ~RefreshSucceeded
    /\ all_jobs = << ListedJobs >>

\* -------------------------------------------------------------------- C26
\* the number of characters a symbol of a text stands for
Width(c) == IF c = "Bearer" THEN 6 ELSE 1

\* s[:n] in characters (a symbol that does not fit whole is left out)
RECURSIVE FirstChars(_, _)
FirstChars(s, n) ==
    IF s = <<>> \/ Width(Head(s)) > n THEN <<>>
    ELSE << Head(s) >> \o FirstChars(Tail(s), n - Width(Head(s)))

\* len(s) in characters
RECURSIVE CharLen(_)
CharLen(s) == IF s = <<>> THEN 0 ELSE Width(Head(s)) + CharLen(Tail(s))

\* s[-n:] in characters (a symbol that does not fit whole is left out)
RECURSIVE LastChars(_, _)
LastChars(s, n) ==
    IF s = <<>> \/ Width(s[Len(s)]) > n THEN <<>>
    ELSE Append(LastChars(SubSeq(s, 1, Len(s) - 1), n - Width(s[Len(s)])), s[Len(s)])

\* st.info(f"Trying alternative auth format: {json.dumps(alt_header)}"):
\* the header sets printed before each alternate request of a call
AltHeadersShown(call) ==
    [ i \in 1..(Len(call.sent) - 1) |-> call.sent[i + 1].headers ]

\* the Headers line of the "Request/Response Details" expander, reached
\* when no request of the call raised: the primary headers with the
\* Authorization value replaced by '***'
ExpanderHeaders(call) ==
    IF call.sent[Len(call.sent)].resp.raised THEN <<>>
    ELSE << [ k \in DOMAIN call.sent[1].headers |->
                IF k = "Authorization" THEN << "***" >> ELSE call.sent[1].headers[k] ] >>

\* f"{auth_header[:15]}...{auth_header[-10:] if len(auth_header) > 25 else ''}"
\* of the JWT debugging branch of Test Authentication
AuthHeaderExcerpt ==
    LET auth_header == IF StartsWith(Strip(jwt_token), <<"Bearer", " ">>)
                       THEN Strip(jwt_token)
                       ELSE <<"Bearer", " ">> \o Strip(jwt_token)
    IN  FirstChars(auth_header, 15) \o << "..." >>
          \o (IF CharLen(auth_header) > 25 THEN LastChars(auth_header, 10) ELSE <<>>)

\* the header values and excerpts the cleanup dashboard displayed in the run
CleanupShownValues ==
    UNION { UNION { { h[k] : k \in DOMAIN h } :
                    h \in { AltHeadersShown(calls[n])[i] :
                              i \in 1..Len(AltHeadersShown(calls[n])) }
                          \cup { ExpanderHeaders(calls[n])[i] :
                              i \in 1..Len(ExpanderHeaders(calls[n])) } }
            : n \in 1..Len(calls) }
    \cup (IF pressed = TestAuthButton /\ calls # <<>> /\ TestAuthJwtRetry(calls[1].returned)
          THEN { AuthHeaderExcerpt } ELSE {})

\* the header values and body tokens the import monitor displayed in the run
MonitorShownValues ==
    UNION { { m_details[i].headers[k] : k \in DOMAIN m_details[i].headers }
            \cup (IF m_details[i].body # <<>> /\ "accessToken" \in DOMAIN m_details[i].body[1]
                  THEN { m_details[i].body[1].accessToken } ELSE {})
            : i \in 1..Len(m_details) }

\* the text t holds the non-empty value v in clear
HoldsValue(t, v) ==
    /\ v # <<>>
    /\ \E i \in 1..(Len(t) - Len(v) + 1) : SubSeq(t, i, i + Len(v) - 1) = v

\* the import monitor displays no credential value in clear
MonitorMasksCredentials ==
    \A t \in MonitorShownValues :
        /\ ~HoldsValue(t, auth_token)
        /\ ~HoldsValue(t, gh_token)
        /\ ~HoldsValue(t, gh_token_resume)

\* C26: no value displayed by either dashboard holds the API key, the JWT
\* or a GitHub access token in clear.
C26_NoCredentialShown ==
    /\ \A t \in CleanupShownValues :
           /\ ~HoldsValue(t, api_key)
           /\ ~HoldsValue(t, Strip(jwt_token))
    /\ MonitorMasksCredentials

====
